---------------------------- MODULE Spec2Model ----------------------------
(***************************************************************************)
(* Model of the helper utilities of Upload-Assistant:                      *)
(*   - src/src/radarr.py : the Radarr movie-record matcher                 *)
(*   - src/src/naming.py : the scene-name normalizer                       *)
(*   - src/src/radarr.py : get_radarr_data, the lookup over the instances  *)
(*   - src/bin/setup_upstream.py : ensure_remote and fetch_remote          *)
(*                                                                         *)
(* Python strings are sequences of one-character strings.  Every other     *)
(* Python value is a record [t, s, n] whose tag t names its type:          *)
(*   "absent" (key missing), "none", "str" (s = the characters),           *)
(*   "int" and "bool" (n = the number), "list" (s = the elements), "other" *)
(*   (a truthy value of any other type).                                   *)
(***************************************************************************)
EXTENDS Integers, Sequences, FiniteSets, TLC

VARIABLES
    radarr_data,      \* extract_movie_data: first argument
    filename,         \* extract_movie_data: the hint
    extract_pc,       \* "ready" | "returned" | "raised"
    matched,          \* index _match_movie_from_filename returned (0 = None)
    extract_result,   \* the mapping extract_movie_data returned
    meta,             \* the meta mapping the naming functions work on
    meta_before,      \* meta as it was when the last naming call began
    config,           \* the config argument of the last naming call, as the call left it
    config_before,    \* the config argument as it was when the call began
    last_call,        \* "none" | "apply_preferred_scene_name" | "prefer_radarr_scene_name"
    call_outcome,     \* "none" | "returned" | "raised": how the last call ended
    call_failed,      \* whether an exception was raised inside the last call
    scene_name_local, \* the local scene_name the last call reached line 125 with
    radarr_module_imported, \* whether naming.py could import src.radarr
    calls,            \* the number of naming calls made so far
    radarr_config,    \* config['DEFAULT']: what it holds for each instance index
    tmdb_id,          \* get_radarr_data: the tmdb_id argument
    lookup_pc,        \* "idle" | "called" | "loop" | "awaiting" | "returned" | "raised"
    instance_index,   \* get_radarr_data: the local instance_index
    requests,         \* the instance indices a GET was sent to, in order
    last_outcome,     \* how the last request ended
    lookup_result,    \* what get_radarr_data returned
    response_data,    \* response.json() of the last response, None unless it was a 200
    remotes,          \* the repository's remotes: for each name, whether it exists and its URL
    remotes_before,   \* remotes when the last ensure_remote call began
    remote_name,      \* ensure_remote: first argument of the last call
    remote_url,       \* ensure_remote: second argument of the last call
    git_commands,     \* the git commands the last ensure_remote call ran, in order
    ensure_outcome,   \* "none" | "True" | "False" | "SystemExit"
    created,          \* the <<name, url>> pairs a call of this run has added
    ensure_calls,     \* the number of ensure_remote calls made so far
    refs,             \* refs/remotes/<name>/<branch>: the commit each points at
    refs_before,      \* refs when the last fetch_remote call began
    fetch_remote_name, \* fetch_remote: first argument of the last call
    bundle_path,      \* fetch_remote: second argument of the last call
    fetch_commands,   \* the git commands the last fetch_remote call ran, in order
    fetch_outcome,    \* "none" | "returned" | "SystemExit" | "GitCommandError"
    contacted,        \* the remotes whose URL the last fetch_remote call contacted
    fetch_calls,      \* the number of fetch_remote calls made so far
    _PATCHED,         \* file_permissions._PATCHED
    aiofiles_imported, \* whether file_permissions could import aiofiles
    bound,            \* what each patched name (builtins.open, os.mkdir, ...) is bound to
    installer_runs,   \* how many times each _patch_* installer has run
    patch_calls,      \* the number of patch_file_permissions calls made so far
    open_mode,        \* the mode of the last open(file, mode) call
    handle,           \* what that call returned: "none" | "file" | "wrapper"
    _ensured,         \* _PermissionAwareFile._ensured of that wrapper
    permissions_applied, \* the _ensure_permissions calls made for that wrapper
    closes_returned,  \* the close / __exit__ calls of the underlying file that returned
    file_closed,      \* whether the underlying file object is closed
    last_file_call,   \* "none" | "open" | "close" | "__exit__"
    last_raised,      \* whether the last close / __exit__ raised
    file_calls,       \* the number of open / close / __exit__ calls made so far
    _handle,          \* _AsyncPermissionAwareFile._handle: "none" or "handle"
    ctx_has_close,    \* whether the wrapped context manager has a close method
    async_ensured,    \* _AsyncPermissionAwareFile._ensured
    thread_starts,    \* the worker-thread calls of _ensure_permissions started
    co_method,        \* for each coroutine, what it awaits: "close" or "__aexit__"
    co_pc,            \* for each coroutine, where it is
    full_path,        \* prompt_filename_correction: the argument
    files,            \* the paths that exist on disk
    files_before,     \* files when prompt_filename_correction was called
    prompt_answer,    \* what the last cli_ui.ask_string call returned (or that it raised EOFError)
    asked,            \* the number of prompts made so far
    prompt_pc,        \* "idle" | "prompting" | "returned" | "exited"
    prompt_outcome,   \* how the last pass of the loop ended
    prompt_result,    \* what prompt_filename_correction returned
    closest_lst,      \* closest: the lst argument
    closest_K,        \* closest: the K argument
    closest_pc,       \* "idle" | "called" | "returned"
    closest_res       \* what closest returned

radarr_vars == <<radarr_data, filename, extract_pc, matched, extract_result>>

naming_vars == <<meta, meta_before, config, config_before, last_call, call_outcome, call_failed,
                 scene_name_local, radarr_module_imported, calls>>

lookup_vars == <<radarr_config, tmdb_id, lookup_pc, instance_index, requests,
                 last_outcome, lookup_result, response_data>>

ensure_vars == <<remotes, remotes_before, remote_name, remote_url, git_commands,
                 ensure_outcome, created, ensure_calls>>

fetch_vars == <<refs, refs_before, fetch_remote_name, bundle_path, fetch_commands,
                fetch_outcome, contacted, fetch_calls>>

remote_vars == <<ensure_vars, fetch_vars>>

patch_vars == <<_PATCHED, aiofiles_imported, bound, installer_runs, patch_calls>>

wrapper_vars == <<open_mode, handle, _ensured, permissions_applied, closes_returned,
                  file_closed, last_file_call, last_raised, file_calls>>

async_vars == <<_handle, ctx_has_close, async_ensured, thread_starts, co_method, co_pc>>

file_vars == <<patch_vars, wrapper_vars, async_vars>>

prompt_vars == <<full_path, files, files_before, prompt_answer, asked, prompt_pc,
                 prompt_outcome, prompt_result>>

closest_vars == <<closest_lst, closest_K, closest_pc, closest_res>>

video_vars == <<prompt_vars, closest_vars>>

vars == <<radarr_vars, naming_vars, lookup_vars, remote_vars, file_vars, video_vars>>

-----------------------------------------------------------------------------
(* Strings *)

Str(s) == [t |-> "str", s |-> s, n |-> 0]
PyNone == [t |-> "none", s |-> <<>>, n |-> 0]
Absent == [t |-> "absent", s |-> <<>>, n |-> 0]
PyInt(k) == [t |-> "int", s |-> <<>>, n |-> k]
PyOther == [t |-> "other", s |-> <<>>, n |-> 0]
PyList(xs) == [t |-> "list", s |-> xs, n |-> 0]
PyTrue == [t |-> "bool", s |-> <<>>, n |-> 1]
PyFalse == [t |-> "bool", s |-> <<>>, n |-> 0]

UpperChars == <<"A","B","C","D","E","F","G","H","I","J","K","L","M",
                "N","O","P","Q","R","S","T","U","V","W","X","Y","Z">>
LowerChars == <<"a","b","c","d","e","f","g","h","i","j","k","l","m",
                "n","o","p","q","r","s","t","u","v","w","x","y","z">>

\* str.lower() on one character
lower_char(c) ==
    IF \E i \in 1..Len(UpperChars) : UpperChars[i] = c
    THEN LowerChars[CHOOSE i \in 1..Len(UpperChars) : UpperChars[i] = c]
    ELSE c

\* str.lower()
lower(s) == [i \in 1..Len(s) |-> lower_char(s[i])]

\* str.isspace() on one character
isspace(c) == c \in {" ", "\t", "\n"}

\* str.strip() that strips nothing
strip_nothing(s) == s

\* str.strip()
strip(s) ==
    IF \A i \in 1..Len(s) : isspace(s[i]) THEN <<>>
    ELSE LET first == CHOOSE i \in 1..Len(s) :
                         /\ ~isspace(s[i])
                         /\ \A j \in 1..(i-1) : isspace(s[j])
             last  == CHOOSE i \in 1..Len(s) :
                         /\ ~isspace(s[i])
                         /\ \A j \in (i+1)..Len(s) : isspace(s[j])
         IN  SubSeq(s, first, last)

\* s.startswith(p) at offset i (1-based)
match_at(s, p, i) ==
    /\ i + Len(p) - 1 <= Len(s)
    /\ \A j \in 1..Len(p) : s[i + j - 1] = p[j]

\* str.endswith
endswith(s, p) == Len(p) <= Len(s) /\ match_at(s, p, Len(s) - Len(p) + 1)

\* str.rfind(c) for a one-character c, 0-based, -1 when absent
rfind(s, c) ==
    IF \E i \in 1..Len(s) : s[i] = c
    THEN (CHOOSE i \in 1..Len(s) :
             s[i] = c /\ \A j \in (i+1)..Len(s) : s[j] # c) - 1
    ELSE -1

\* str.replace(old, new) for a non-empty old: the non-overlapping
\* occurrences of old, found left to right, are replaced
RECURSIVE replace_from(_, _, _, _)
replace_from(s, old, new, i) ==
    IF i > Len(s) THEN <<>>
    ELSE IF match_at(s, old, i)
         THEN new \o replace_from(s, old, new, i + Len(old))
         ELSE <<s[i]>> \o replace_from(s, old, new, i + 1)

replace(s, old, new) == replace_from(s, old, new, 1)

\* str.split(sep) for a one-character sep
RECURSIVE split_from(_, _, _, _)
split_from(s, sep, i, cur) ==
    IF i > Len(s) THEN <<cur>>
    ELSE IF s[i] = sep
         THEN <<cur>> \o split_from(s, sep, i + 1, <<>>)
         ELSE split_from(s, sep, i + 1, Append(cur, s[i]))

split(s, sep) == split_from(s, sep, 1, <<>>)

-----------------------------------------------------------------------------
(* pathlib.Path on POSIX, as _normalize_tokens uses it *)

\* the components of Path(s) below its root: empty and "." pieces drop out
path_parts(s) == SelectSeq(split(s, "/"), LAMBDA p : p # <<>> /\ p # <<".">>)

\* Path(s).name
path_name(s) ==
    LET parts == path_parts(s)
    IN  IF parts = <<>> THEN <<>> ELSE parts[Len(parts)]

\* Path(s).stem: the name up to its last dot, unless that dot is the first
\* or the last character
path_stem(s) ==
    LET name == path_name(s)
        i    == rfind(name, ".")
    IN  IF 0 < i /\ i < Len(name) - 1 THEN SubSeq(name, 1, i) ELSE name

\* Path(s).parent != Path(s)
has_parent(s) == path_parts(s) # <<>>

\* Path(s).parent.name
parent_name(s) ==
    LET parts == path_parts(s)
    IN  IF Len(parts) >= 2 THEN parts[Len(parts) - 1] ELSE <<>>


-----------------------------------------------------------------------------
(* src/src/radarr.py: the movie-record matcher *)

\* _normalize_tokens(value): the comparable tokens of a path or name.
\* Path(stripped) cannot fail on a str, so the except branch is unreachable.
_normalize_tokens(value) ==
    IF value.t # "str" THEN {}
    ELSE LET stripped == strip(value.s)
         IN  IF stripped = <<>> THEN {}
             ELSE LET parts ==
                          {lower(path_name(stripped))}
                          \cup (IF path_stem(stripped) # <<>>
                                THEN {lower(path_stem(stripped))} ELSE {})
                          \cup (IF has_parent(stripped)
                                THEN {lower(parent_name(stripped))} ELSE {})
                  IN  {lower(stripped)} \cup {p \in parts : p # <<>>}

\* bool(value): Python truthiness of a modelled value
truthy(value) ==
    CASE value.t \in {"absent", "none"} -> FALSE
      [] value.t = "str"   -> value.s # <<>>
      [] value.t \in {"int", "bool"} -> value.n # 0
      [] value.t = "list"  -> value.s # <<>>
      [] OTHER             -> TRUE

\* item.get("movieFile") or {}: the mapping the path fields are read from.
\* A truthy movieFile that is no mapping has no .get: the read raises.
NoMovieFile ==
    [t |-> "absent", originalFilePath |-> Absent, path |-> Absent,
     relativePath |-> Absent, releaseGroup |-> Absent, sceneName |-> Absent]

movie_file_raises(item) == item.movieFile.t = "other"

\* candidate_values with the folderName entry forgotten
candidate_values_without_folderName(item) ==
    <<item.movieFile.originalFilePath,
      item.movieFile.path,
      item.movieFile.relativePath,
      item.path,
      item.folder>>

\* candidate_values of one item, in the order the loop unions them
candidate_values(item) ==
    <<item.movieFile.originalFilePath,
      item.movieFile.path,
      item.movieFile.relativePath,
      item.path,
      item.folder,
      item.folderName>>

\* candidate_tokens of one item: the union over candidate_values
candidate_tokens(item) ==
    UNION {_normalize_tokens(candidate_values(item)[k]) :
              k \in 1..Len(candidate_values(item))}

\* a loop that scores the overlap and keeps the best candidate
RECURSIVE match_loop_best_overlap(_, _, _)
match_loop_best_overlap(items, target_tokens, i) ==
    IF \E k \in i..Len(items) :
           items[k].t # "dict" \/ movie_file_raises(items[k]) THEN -1
    ELSE IF \A k \in i..Len(items) :
           target_tokens \cap candidate_tokens(items[k]) = {} THEN 0
    ELSE CHOOSE k \in i..Len(items) :
           /\ \A j \in i..Len(items) :
                  Cardinality(target_tokens \cap candidate_tokens(items[j]))
                      <= Cardinality(target_tokens \cap candidate_tokens(items[k]))
           /\ \A j \in i..(k-1) :
                  Cardinality(target_tokens \cap candidate_tokens(items[j]))
                      < Cardinality(target_tokens \cap candidate_tokens(items[k]))

\* the for loop of _match_movie_from_filename from index i on:
\* the index of the first item whose tokens meet target_tokens, 0 for None,
\* -1 when the loop reaches an item it cannot read (AttributeError): one
\* that is no mapping, or whose movieFile is truthy and no mapping
RECURSIVE match_loop(_, _, _)
match_loop(items, target_tokens, i) ==
    IF i > Len(items) THEN 0
    ELSE IF items[i].t # "dict" \/ movie_file_raises(items[i]) THEN -1
    ELSE IF target_tokens \cap candidate_tokens(items[i]) # {} THEN i
    ELSE match_loop(items, target_tokens, i + 1)

\* _match_movie_from_filename(radarr_data, filename)
_match_movie_from_filename(items, hint) ==
    IF ~truthy(hint) THEN 0
    ELSE IF _normalize_tokens(hint) = {} THEN 0
    ELSE match_loop(items, _normalize_tokens(hint), 1)

\* int(s) on the characters modelled: decimal digits only, else ValueError
Digits == <<"0","1","2","3","4","5","6","7","8","9">>
is_digit(c) == \E d \in 1..Len(Digits) : Digits[d] = c
digit_value(c) == (CHOOSE d \in 1..Len(Digits) : Digits[d] = c) - 1
int_parses(s) == s # <<>> /\ \A i \in 1..Len(s) : is_digit(s[i])
RECURSIVE int_of(_)
int_of(s) ==
    IF s = <<>> THEN 0
    ELSE 10 * int_of(SubSeq(s, 1, Len(s) - 1)) + digit_value(s[Len(s)])

\* the record of a missing movie
NullItem ==
    [t |-> "none", movieFile |-> NoMovieFile, path |-> Absent, folder |-> Absent,
     folderName |-> Absent, imdbId |-> Absent, tmdbId |-> Absent,
     year |-> Absent, genres |-> Absent]

\* a "no data" leaf whose genres is None
NoData_genres_none ==
    [imdb_id |-> PyNone, tmdb_id |-> PyNone, year |-> PyNone,
     genres |-> PyNone, release_group |-> PyNone, movie |-> NullItem]

\* the mapping of the "no data" leaf
NoData ==
    [imdb_id |-> PyNone, tmdb_id |-> PyNone, year |-> PyNone,
     genres |-> PyList(<<>>), release_group |-> PyNone, movie |-> NullItem]

\* dict.get(key, default): an absent key reads as the default
get(value, default) == IF value.t = "absent" THEN default ELSE value

\* the imdb_id expression: raises when imdbId is truthy and either no str
\* (no .replace) or, "tt" removed, not a number
imdb_raises(movie) ==
    /\ truthy(movie.imdbId)
    /\ \/ movie.imdbId.t # "str"
       \/ ~int_parses(replace(movie.imdbId.s, <<"t","t">>, <<>>))

imdb_id_of(movie) ==
    IF truthy(movie.imdbId)
    THEN PyInt(int_of(replace(movie.imdbId.s, <<"t","t">>, <<>>)))
    ELSE PyNone

\* release_group of the chosen movie; movie["movieFile"].get raises when
\* movieFile is truthy and no mapping
release_group_of(movie) ==
    IF movie.movieFile.t = "dict" /\ truthy(movie.movieFile.releaseGroup)
    THEN movie.movieFile.releaseGroup
    ELSE PyNone

\* the projection extract_movie_data returns for the chosen movie
projection(movie) ==
    [imdb_id |-> imdb_id_of(movie),
     tmdb_id |-> get(movie.tmdbId, PyNone),
     year |-> get(movie.year, PyNone),
     genres |-> get(movie.genres, PyList(<<>>)),
     release_group |-> release_group_of(movie),
     movie |-> movie]

\* the guard of extract_movie_data's "no data" leaf
no_data(data) == ~truthy(data) \/ data.t # "list" \/ Len(data.s) = 0

\* a fallback to the last record of the list
chosen_index_last(items, hint) ==
    IF _match_movie_from_filename(items, hint) > 0
    THEN _match_movie_from_filename(items, hint)
    ELSE Len(items)

\* _match_movie_from_filename(...) or radarr_data[0]
chosen_index(items, hint) ==
    IF _match_movie_from_filename(items, hint) > 0
    THEN _match_movie_from_filename(items, hint)
    ELSE 1

\* whether the body of extract_movie_data after the "no data" leaf raises
extract_raises(items, hint) ==
    \/ _match_movie_from_filename(items, hint) < 0
    \/ LET movie == items[chosen_index(items, hint)]
       IN  \/ movie.t # "dict"
           \/ movie_file_raises(movie)
           \/ imdb_raises(movie)

-----------------------------------------------------------------------------
(* The inputs of extract_movie_data *)

MaxCandidates == 3

Item(mf, path, folder, folderName, imdbId, tmdbId, year, genres) ==
    [t |-> "dict", movieFile |-> mf, path |-> path, folder |-> folder,
     folderName |-> folderName, imdbId |-> imdbId, tmdbId |-> tmdbId,
     year |-> year, genres |-> genres]

MovieFile(originalFilePath, path, relativePath, releaseGroup, sceneName) ==
    [t |-> "dict", originalFilePath |-> originalFilePath, path |-> path,
     relativePath |-> relativePath, releaseGroup |-> releaseGroup,
     sceneName |-> sceneName]

\* "Bal", "Bals", "/m/Bal", "Rel/g.mkv", "x/Bal/f.mkv", "f.mkv", "Q.mkv"
sBal    == <<"B","a","l">>
sBals   == <<"B","a","l","s">>
sMBal   == <<"/","m","/","B","a","l">>
sRelF   == <<"R","e","l","/","g",".","m","k","v">>
sXBalF  == <<"x","/","B","a","l","/","f",".","m","k","v">>
sF      == <<"f",".","m","k","v">>
sQ      == <<"Q",".","m","k","v">>
sScene  == <<"D","e",".","B">>
sGrp    == <<"G","R","P">>

\* a record with folder, folderName and a movieFile, as Radarr returns it
ItemBal ==
    Item(MovieFile(Str(sRelF), Absent, Absent, Str(sGrp), Str(sScene)),
         Absent, Str(sBal), Str(sMBal),
         Str(<<"t","t","1","2">>), PyInt(1), PyInt(2025),
         PyList(<<"Drama", "Romance">>))
\* a record whose only path field is folder
ItemBals ==
    Item(NoMovieFile, Absent, Str(sBals), Absent,
         Str(<<"t","t","0","7">>), PyInt(2), PyInt(2025),
         PyList(<<"Documentary">>))
\* a record known by its movieFile.path and relativePath only
ItemFile ==
    Item(MovieFile(Absent, Str(sXBalF), Str(sF), PyNone, Absent),
         Absent, Absent, Absent, Absent, PyInt(3), PyNone, PyNone)
\* a record known by its own path only
ItemPath ==
    Item(NoMovieFile, Str(sQ), PyNone, PyOther, PyNone, Absent, Absent, Absent)
\* the empty mapping {}
ItemEmpty ==
    Item(NoMovieFile, Absent, Absent, Absent, Absent, Absent, Absent, Absent)
\* an element that is no mapping (None, a number, a string)
ItemNoMapping == [NullItem EXCEPT !.t = "other"]
\* a mapping whose movieFile is a truthy non-mapping
ItemBadMovieFile ==
    Item([NoMovieFile EXCEPT !.t = "other"], Absent, Str(sBal), Absent,
         Absent, PyInt(4), Absent, Absent)
\* a mapping whose imdbId is not "tt" followed by digits
ItemBadImdb ==
    Item(NoMovieFile, Absent, Absent, Str(sBal),
         Str(<<"t","t","x">>), PyInt(5), Absent, Absent)

Items ==
    {ItemBal, ItemBals, ItemFile, ItemPath, ItemEmpty,
     ItemNoMapping, ItemBadMovieFile, ItemBadImdb}

RECURSIVE SeqsUpTo(_, _)
SeqsUpTo(S, k) ==
    IF k = 0 THEN {<<>>}
    ELSE SeqsUpTo(S, k - 1)
         \cup {Append(q, x) : q \in {r \in SeqsUpTo(S, k - 1) : Len(r) = k - 1}, x \in S}

\* what a caller may pass as radarr_data: a list, None, or another value
DataValues ==
    {PyList(q) : q \in SeqsUpTo(Items, MaxCandidates)}
    \cup {PyNone, PyOther, PyInt(0), Str(<<>>)}

\* what a caller may pass as filename
Hints ==
    {PyNone, PyOther, Str(<<>>), Str(<<" ">>),
     Str(sBal), Str(<<" ","B","A","L"," ">>), Str(sBals),
     Str(<<"B","a","l","/","f",".","m","k","v">>),
     Str(<<"m">>), Str(<<"q">>),
     Str(<<"n","o","t","-","a","-","m","a","t","c","h">>)}

-----------------------------------------------------------------------------
(* get_radarr_data: the configuration it reads and what it does with a
   response *)

\* max_instances, the cap of the while loop
max_instances == 4

\* the highest instance index a configuration of the model mentions
MaxIndex == 4

\* config['DEFAULT'] with the first n instances configured.  For the index
\* i an entry says what radarr_api_key{suffix} and radarr_url{suffix} hold:
\* "absent" (no such key), "empty" (the key holds ''), "set" (key and URL
\* hold strings), "no_url" (the key is set, radarr_url{suffix} is missing)
Instances(n) == [i \in 0..MaxIndex |-> IF i < n THEN "set" ELSE "absent"]

\* the configurations: 0 to MaxIndex + 1 consecutive instances, a gap at
\* index 1, no default instance, an empty key, a missing URL
RadarrConfigs ==
    {Instances(n) : n \in 0..(MaxIndex + 1)}
    \cup {[Instances(3) EXCEPT ![1] = "absent"],
          [Instances(2) EXCEPT ![0] = "absent"],
          [Instances(2) EXCEPT ![1] = "empty"],
          [Instances(1) EXCEPT ![0] = "empty"],
          [Instances(2) EXCEPT ![1] = "no_url"]}

\* line 10: any(key.startswith('radarr_api_key') for key in config['DEFAULT'])
any_api_key(cfg) == \E i \in DOMAIN cfg : cfg[i] # "absent"

\* line 25 negated: the key of instance i is in the config and not empty
api_key_configured(cfg, i) == i \in DOMAIN cfg /\ cfg[i] \in {"set", "no_url"}

\* the JSON bodies a 200 response may carry: a record with ids, one without,
\* one extract_movie_data raises on, and the empty list
ResponseData ==
    {PyList(<<ItemBal>>), PyList(<<ItemEmpty>>), PyList(<<ItemBadImdb>>),
     PyList(<<>>)}

\* the filename argument: none, or a hint that names ItemBal
LookupFilenames == {PyNone, Str(sBal)}

\* extract_movie_data(body, hint) inside the try block: whether it raises,
\* and else the movie_data it returns
extract_call(body, hint) ==
    IF no_data(body) THEN [raised |-> FALSE, movie_data |-> NoData]
    ELSE IF extract_raises(body.s, hint) THEN [raised |-> TRUE, movie_data |-> NoData]
    ELSE [raised |-> FALSE,
          movie_data |-> projection(body.s[chosen_index(body.s, hint)])]

\* extract_call on the bodies and filenames of the model
ExtractCalls ==
    [body \in ResponseData, hint \in LookupFilenames |-> extract_call(body, hint)]

\* only httpx.RequestError handled
caught_request_error_only(exception) == exception = "RequestError"

\* the except clauses of lines 72-77: RequestError, TimeoutException and any
\* other Exception raised in the try block are handled
caught(exception) == exception \in {"RequestError", "TimeoutException", "Exception"}

\* line 68: movie_data.get("imdb_id") or movie_data.get("tmdb_id")
has_valid_ids(movie_data) == truthy(movie_data.imdb_id) \/ truthy(movie_data.tmdb_id)

\* the return value None
LookupNone == [t |-> "none", value |-> NoData]

LookupIdle ==
    /\ radarr_config = Instances(0)
    /\ tmdb_id = PyNone
    /\ lookup_pc = "idle"
    /\ instance_index = 0
    /\ requests = <<>>
    /\ last_outcome = "none"
    /\ lookup_result = LookupNone
    /\ response_data = PyNone

-----------------------------------------------------------------------------
(* ensure_remote: the repository's remotes and the git commands *)

RemoteNames == {"upstream", "origin"}

\* "https://u", "https://f" and "https://u " with a trailing blank
sUrl      == <<"h","t","t","p","s",":","/","/","u">>
sForkUrl  == <<"h","t","t","p","s",":","/","/","f">>
sUrlBlank == <<"h","t","t","p","s",":","/","/","u"," ">>

RemoteUrls == {sUrl, sForkUrl, sUrlBlank}

NoRemote == [present |-> FALSE, url |-> <<>>]
Remote(url) == [present |-> TRUE, url |-> url]

\* the branches and the commits of the bundle and of the repository behind
\* a remote's URL
Branches == {"master", "dev"}
BundleHeads == [master |-> "bundle_master", dev |-> "bundle_dev"]
UrlHeads == [master |-> "url_master"]

NoRefs == [name \in RemoteNames |-> [branch \in Branches |-> "none"]]

\* fetch_remote's bundle_path: None, or a path as the sequence of its parts
\* ("" is <<>>, "./upstream" is <<".", "upstream">>)
NoBundle == [given |-> FALSE, parts |-> <<>>]
BundlePath(parts) == [given |-> TRUE, parts |-> parts]

FetchIdle ==
    /\ refs = NoRefs
    /\ refs_before = NoRefs
    /\ fetch_remote_name = "none"
    /\ bundle_path = NoBundle
    /\ fetch_commands = <<>>
    /\ fetch_outcome = "none"
    /\ contacted = {}
    /\ fetch_calls = 0

RemoteIdle ==
    /\ FetchIdle
    /\ remotes = [name \in RemoteNames |-> NoRemote]
    /\ remotes_before = remotes
    /\ remote_name = "none"
    /\ remote_url = <<>>
    /\ git_commands = <<>>
    /\ ensure_outcome = "none"
    /\ created = {}
    /\ ensure_calls = 0

-----------------------------------------------------------------------------
(* file_permissions: the patched names and the file wrapper *)

\* the names patch_file_permissions rebinds and the installer of each
Primitives == {"builtins.open", "os.makedirs", "os.mkdir", "Path.write_text",
               "Path.write_bytes", "Path.mkdir", "aiofiles.open"}

Installers == {"_patch_open", "_patch_os_makedirs", "_patch_os_mkdir",
               "_patch_path_methods", "_patch_aiofiles"}

InstallerOf ==
    [primitive \in Primitives |->
        CASE primitive = "builtins.open" -> "_patch_open"
          [] primitive = "os.makedirs" -> "_patch_os_makedirs"
          [] primitive = "os.mkdir" -> "_patch_os_mkdir"
          [] primitive = "aiofiles.open" -> "_patch_aiofiles"
          [] OTHER -> "_patch_path_methods"]

\* a callable: the primitive itself (depth 0), or a wrapper, whose depth is 1
\* more than the depth of the callable it delegates to
Primitive(name) == [t |-> "primitive", of |-> name, depth |-> 0]
Wrapper(callable) == [t |-> "wrapper", of |-> callable.of, depth |-> callable.depth + 1]
Missing(name) == [t |-> "missing", of |-> name, depth |-> 0]

\* the bindings when file_permissions is imported; aiofiles.open is missing
\* when aiofiles cannot be imported
ImportedBindings(with_aiofiles) ==
    [primitive \in Primitives |->
        IF primitive = "aiofiles.open" /\ ~with_aiofiles
        THEN Missing(primitive)
        ELSE Primitive(primitive)]

\* _ORIGINAL_OPEN, _ORIGINAL_MAKEDIRS, ...: the callables captured at import
\* (_ORIGINAL_AIOFILES_OPEN is None without aiofiles)
_ORIGINAL(primitive, with_aiofiles) == ImportedBindings(with_aiofiles)[primitive]

\* the modes open is called with, as their characters
Modes == {<<"r">>, <<"r", "b">>, <<"w">>, <<"a", "b">>, <<"x">>, <<"r", "+">>}

PatchIdle ==
    /\ _PATCHED = FALSE
    /\ aiofiles_imported = FALSE
    /\ bound = ImportedBindings(FALSE)
    /\ installer_runs = [installer \in Installers |-> 0]
    /\ patch_calls = 0

WrapperIdle ==
    /\ open_mode = <<>>
    /\ handle = "none"
    /\ _ensured = FALSE
    /\ permissions_applied = 0
    /\ closes_returned = 0
    /\ file_closed = FALSE
    /\ last_file_call = "none"
    /\ last_raised = FALSE
    /\ file_calls = 0

\* the coroutines that use one _AsyncPermissionAwareFile
MaxCoroutines == 2
Coroutines == 1..MaxCoroutines

AsyncIdle ==
    /\ _handle = "none"
    /\ ctx_has_close = FALSE
    /\ async_ensured = FALSE
    /\ thread_starts = 0
    /\ co_method = [c \in Coroutines |-> "none"]
    /\ co_pc = [c \in Coroutines |-> "idle"]

FilesIdle ==
    /\ PatchIdle
    /\ WrapperIdle
    /\ AsyncIdle

PromptIdle ==
    /\ full_path = <<>>
    /\ files = {}
    /\ files_before = {}
    /\ prompt_answer = PyNone
    /\ asked = 0
    /\ prompt_pc = "idle"
    /\ prompt_outcome = "none"
    /\ prompt_result = PyNone

ClosestIdle ==
    /\ closest_lst = <<>>
    /\ closest_K = 0
    /\ closest_pc = "idle"
    /\ closest_res = 0

VideoIdle ==
    /\ PromptIdle
    /\ ClosestIdle

-----------------------------------------------------------------------------
(* extract_movie_data as a state machine: Init draws the arguments, the one
   action is the call *)

NamingIdle ==
    /\ meta = [t |-> "none"]
    /\ meta_before = [t |-> "none"]
    /\ config = [t |-> "none"]
    /\ config_before = [t |-> "none"]
    /\ last_call = "none"
    /\ call_outcome = "none"
    /\ call_failed = FALSE
    /\ scene_name_local = Absent
    /\ radarr_module_imported = TRUE
    /\ calls = 0

RadarrInit ==
    /\ NamingIdle
    /\ LookupIdle
    /\ RemoteIdle
    /\ FilesIdle
    /\ VideoIdle
    /\ radarr_data \in DataValues
    /\ filename \in Hints
    /\ extract_pc = "ready"
    /\ matched = 0
    /\ extract_result = NoData

\* extract_movie_data(radarr_data, filename)
extract_movie_data ==
    /\ extract_pc = "ready"
    /\ IF no_data(radarr_data)
       THEN /\ extract_pc' = "returned"
            /\ matched' = 0
            /\ extract_result' = NoData
       ELSE IF extract_raises(radarr_data.s, filename)
       THEN /\ extract_pc' = "raised"
            /\ matched' = _match_movie_from_filename(radarr_data.s, filename)
            /\ extract_result' = extract_result
       ELSE /\ extract_pc' = "returned"
            /\ matched' = _match_movie_from_filename(radarr_data.s, filename)
            /\ extract_result' =
                   projection(radarr_data.s[chosen_index(radarr_data.s, filename)])
    /\ UNCHANGED <<radarr_data, filename>>
    /\ UNCHANGED <<naming_vars, lookup_vars, remote_vars, file_vars, video_vars>>

RadarrNext == extract_movie_data

RadarrSpec == RadarrInit /\ [][RadarrNext]_vars

-----------------------------------------------------------------------------
(* get_radarr_data as a state machine: Init draws the configuration and the
   arguments; the steps are the entry, the head of the loop up to the GET,
   and the end of the awaited GET *)

GetRadarrInit ==
    /\ NamingIdle
    /\ RemoteIdle
    /\ FilesIdle
    /\ VideoIdle
    /\ radarr_config \in RadarrConfigs
    /\ tmdb_id \in {PyNone, PyInt(603)}
    /\ filename \in LookupFilenames
    /\ lookup_pc = "called"
    /\ instance_index = 0
    /\ requests = <<>>
    /\ last_outcome = "none"
    /\ lookup_result = LookupNone
    /\ response_data = PyNone
    /\ radarr_data = PyNone
    /\ extract_pc = "idle"
    /\ matched = 0
    /\ extract_result = NoData

\* lines 10-16: the test for any API key, instance_index = 0
get_radarr_data ==
    /\ lookup_pc = "called"
    /\ IF any_api_key(radarr_config)
       THEN lookup_pc' = "loop"
       ELSE lookup_pc' = "returned"
    /\ instance_index' = 0
    /\ lookup_result' = LookupNone
    /\ UNCHANGED <<radarr_config, tmdb_id, requests, last_outcome, response_data>>
    /\ UNCHANGED <<radarr_vars, naming_vars, remote_vars, file_vars, video_vars>>

\* lines 18-54: one pass of the loop head.  The loop ends (while condition
\* or break) and None is returned at lines 84-86, or config['DEFAULT'][url_name]
\* raises KeyError, or the GET is sent, or neither argument is given and the
\* loop goes on
next_instance ==
    /\ lookup_pc = "loop"
    /\ IF instance_index >= max_instances
          \/ ~api_key_configured(radarr_config, instance_index)
       THEN /\ lookup_pc' = "returned"
            /\ lookup_result' = LookupNone
            /\ UNCHANGED <<instance_index, requests>>
       ELSE IF radarr_config[instance_index] = "no_url"
       THEN /\ lookup_pc' = "raised"
            /\ UNCHANGED <<instance_index, requests, lookup_result>>
       ELSE IF truthy(tmdb_id) \/ truthy(filename)
       THEN /\ lookup_pc' = "awaiting"
            /\ requests' = Append(requests, instance_index)
            /\ UNCHANGED <<instance_index, lookup_result>>
       ELSE /\ lookup_pc' = "loop"
            /\ instance_index' = instance_index + 1
            /\ UNCHANGED <<requests, lookup_result>>
    /\ UNCHANGED <<radarr_config, tmdb_id, last_outcome, response_data>>
    /\ UNCHANGED <<radarr_vars, naming_vars, remote_vars, file_vars, video_vars>>

\* lines 55-82: the awaited GET ends.  A 200 response with a JSON body is
\* handed to extract_movie_data (which does not suspend): its exception goes
\* to `except Exception`, a movie_data with an id is returned, one without
\* lets the loop go on.  Another status is printed; a RequestError, a
\* TimeoutException or the error of response.json() goes to the except
\* clauses.  Then instance_index += 1
response ==
    /\ lookup_pc = "awaiting"
    /\ \/ \E body \in ResponseData :
            LET call == ExtractCalls[body, filename]
            IN  /\ response_data' = body
                /\ IF call.raised
                   THEN /\ last_outcome' = "Exception"
                        /\ IF caught("Exception")
                           THEN /\ lookup_pc' = "loop"
                                /\ instance_index' = instance_index + 1
                           ELSE /\ lookup_pc' = "raised"
                                /\ UNCHANGED instance_index
                        /\ UNCHANGED lookup_result
                   ELSE IF has_valid_ids(call.movie_data)
                   THEN /\ last_outcome' = "found"
                        /\ lookup_pc' = "returned"
                        /\ lookup_result' = [t |-> "dict", value |-> call.movie_data]
                        /\ UNCHANGED instance_index
                   ELSE /\ last_outcome' = "no_ids"
                        /\ lookup_pc' = "loop"
                        /\ instance_index' = instance_index + 1
                        /\ UNCHANGED lookup_result
       \/ \E failure \in {"status_other", "RequestError", "TimeoutException", "Exception"} :
            /\ last_outcome' = failure
            /\ response_data' = PyNone
            /\ IF failure = "status_other" \/ caught(failure)
               THEN /\ lookup_pc' = "loop"
                    /\ instance_index' = instance_index + 1
               ELSE /\ lookup_pc' = "raised"
                    /\ UNCHANGED instance_index
            /\ UNCHANGED lookup_result
    /\ UNCHANGED <<radarr_config, tmdb_id, requests>>
    /\ UNCHANGED <<radarr_vars, naming_vars, remote_vars, file_vars, video_vars>>

GetRadarrNext ==
    \/ get_radarr_data
    \/ next_instance
    \/ response

GetRadarrSpec == GetRadarrInit /\ [][GetRadarrNext]_vars

\* every step is the coroutine's own: the event loop resumes it, and the GET
\* is made with timeout=10.0, so the await ends
GetRadarrFairSpec == GetRadarrSpec /\ WF_vars(GetRadarrNext)

-----------------------------------------------------------------------------
(* Properties of extract_movie_data *)

\* the token set of a candidate, as the specification states it: the tokens
\* of its six path-like fields
FieldTokens(item) ==
    _normalize_tokens(item.movieFile.originalFilePath)
    \cup _normalize_tokens(item.movieFile.path)
    \cup _normalize_tokens(item.movieFile.relativePath)
    \cup _normalize_tokens(item.path)
    \cup _normalize_tokens(item.folder)
    \cup _normalize_tokens(item.folderName)

\* a Candidate Record of the data model: a mapping whose movieFile, when
\* present, is a mapping and whose imdbId, when present, is "tt" and digits
IsCandidateRecord(item) ==
    /\ item.t = "dict"
    /\ item.movieFile.t \in {"absent", "none", "dict"}
    /\ \/ item.imdbId.t \in {"absent", "none"}
       \/ /\ item.imdbId.t = "str"
          /\ Len(item.imdbId.s) >= 3
          /\ item.imdbId.s[1] = "t" /\ item.imdbId.s[2] = "t"
          /\ \A i \in 3..Len(item.imdbId.s) : is_digit(item.imdbId.s[i])

\* the call was made on a non-empty list of Candidate Records
CalledOnCandidates ==
    /\ extract_pc # "ready"
    /\ radarr_data.t = "list"
    /\ Len(radarr_data.s) > 0
    /\ \A i \in 1..Len(radarr_data.s) : IsCandidateRecord(radarr_data.s[i])

\* the indices of the candidates whose token set meets the hint's
Intersecting ==
    {i \in 1..Len(radarr_data.s) :
        FieldTokens(radarr_data.s[i]) \cap _normalize_tokens(filename) # {}}

\* C1: on a non-empty list of candidate records none of whose token sets
\* meets the hint's token set (a missing or empty hint included), the call
\* returns and the selected movie is the first element of the list, not null.
C1_FallbackToFirst ==
    (CalledOnCandidates /\ Intersecting = {})
        => /\ extract_pc = "returned"
           /\ extract_result.movie = radarr_data.s[1]
           /\ extract_result.movie.t # "none"

\* C1 witness: a hint with tokens, two different candidates with tokens,
\* no overlap, and the first one returned
C1_Witness ==
    /\ CalledOnCandidates /\ Intersecting = {}
    /\ _normalize_tokens(filename) # {}
    /\ Len(radarr_data.s) >= 2
    /\ radarr_data.s[1] # radarr_data.s[Len(radarr_data.s)]
    /\ \A i \in 1..Len(radarr_data.s) : FieldTokens(radarr_data.s[i]) # {}
    /\ extract_result.movie = radarr_data.s[1]

\* C2: when exactly one candidate's token set meets the hint's token set,
\* that candidate is the selected movie, whatever its index.
C2_UniqueMatchSelected ==
    (CalledOnCandidates /\ Cardinality(Intersecting) = 1)
        => /\ extract_pc = "returned"
           /\ \A i \in Intersecting :
                 /\ matched = i
                 /\ extract_result.movie = radarr_data.s[i]

\* C2 witness: the only intersecting candidate is the last of three, it
\* differs from the first, and it is the one returned
C2_Witness ==
    /\ CalledOnCandidates
    /\ Len(radarr_data.s) = 3
    /\ Intersecting = {3}
    /\ radarr_data.s[3] # radarr_data.s[1]
    /\ extract_result.movie = radarr_data.s[3]

\* C3: when several candidates' token sets meet the hint's token set, the
\* one with the lowest index is selected, however many tokens each shares.
C3_LowestIndexWins ==
    (CalledOnCandidates /\ Cardinality(Intersecting) >= 2)
        => /\ extract_pc = "returned"
           /\ \E i \in Intersecting :
                 /\ \A j \in Intersecting : i <= j
                 /\ matched = i
                 /\ extract_result.movie = radarr_data.s[i]

\* C3 witness: the second candidate shares fewer tokens with the hint than
\* the third, the first shares none, and the second is returned
C3_Witness ==
    /\ CalledOnCandidates
    /\ Len(radarr_data.s) = 3
    /\ Intersecting = {2, 3}
    /\ Cardinality(FieldTokens(radarr_data.s[2]) \cap _normalize_tokens(filename))
         < Cardinality(FieldTokens(radarr_data.s[3]) \cap _normalize_tokens(filename))
    /\ matched = 2
    /\ extract_result.movie = radarr_data.s[2]

\* C4: for an empty list, None or any value that is no list, the call
\* returns exactly {imdb_id: None, tmdb_id: None, year: None, genres: [],
\* release_group: None, movie: None}.
C4_NoDataLeaf ==
    (extract_pc # "ready" /\ (radarr_data.t # "list" \/ radarr_data.s = <<>>))
        => /\ extract_pc = "returned"
           /\ extract_result.imdb_id = PyNone
           /\ extract_result.tmdb_id = PyNone
           /\ extract_result.year = PyNone
           /\ extract_result.genres = PyList(<<>>)
           /\ extract_result.release_group = PyNone
           /\ extract_result.movie.t = "none"

\* C4 witness: the call returned for a truthy argument that is no list
C4_Witness ==
    /\ extract_pc = "returned"
    /\ radarr_data.t = "other"
    /\ filename.t = "str"

\* C5: extract_movie_data never raises, whatever the elements of the list.
C5_NeverRaises == extract_pc # "raised"

-----------------------------------------------------------------------------
(* src/src/naming.py: the scene-name normalizer *)

\* radarr.sceneNaming(movie_data): the trimmed movieFile.sceneName, <<>>
\* standing for None.  movie_file.get raises (AttributeError) when movieFile
\* is truthy and no mapping.
sceneNaming_raises(movie_data) ==
    movie_data.t = "dict" /\ movie_data.movieFile.t = "other"

sceneNaming(movie_data) ==
    IF movie_data.t # "dict" THEN <<>>
    ELSE IF movie_data.movieFile.t # "dict" THEN <<>>
    ELSE IF movie_data.movieFile.sceneName.t # "str" THEN <<>>
    ELSE strip(movie_data.movieFile.sceneName.s)

\* _extract_radarr_scene_name(radarr_data), its argument named radarr_dict
\* here.  imported tells whether
\* the import of src.radarr at the top of naming.py succeeded.
\* (radarr_data or {}).get raises when it is truthy and no mapping.
scene_name_raises(radarr_dict, imported) ==
    \/ imported /\ sceneNaming_raises(radarr_dict)
    \/ radarr_dict.t = "other"
    \/ radarr_dict.t = "dict" /\ radarr_dict.movieFile.t = "other"

\* the fallback taking sceneName as it stands, blanks and all
_extract_radarr_scene_name_untrimmed(radarr_dict, imported) ==
    IF imported /\ sceneNaming(radarr_dict) # <<>>
    THEN sceneNaming(radarr_dict)
    ELSE IF radarr_dict.t # "dict" \/ radarr_dict.movieFile.t # "dict" THEN <<>>
    ELSE IF radarr_dict.movieFile.sceneName.t = "str"
         THEN radarr_dict.movieFile.sceneName.s
         ELSE <<>>

_extract_radarr_scene_name(radarr_dict, imported) ==
    IF imported /\ sceneNaming(radarr_dict) # <<>>
    THEN sceneNaming(radarr_dict)
    ELSE IF radarr_dict.t # "dict" \/ radarr_dict.movieFile.t # "dict" THEN <<>>
    ELSE IF radarr_dict.movieFile.sceneName.t = "str"
         THEN strip(radarr_dict.movieFile.sceneName.s)
         ELSE <<>>

\* a default set that lacks the closing parenthesis
DEFAULT_STRIP_CHARS_without_paren == << <<"{">>, <<"}">>, <<"[">>, <<"]">>, <<"(">> >>

DEFAULT_STRIP_CHARS == << <<"{">>, <<"}">>, <<"[">>, <<"]">>, <<"(">>, <<")">> >>
DEFAULT_SPACE_REPLACEMENT == <<".">>

\* the replacements table of _apply_scene_token_normalization, in dict order
TokenReplacements ==
    << [old |-> <<"D","D","+">>, new |-> <<"D","D","P">>],
       [old |-> <<"H","D","R",".">>, new |-> <<"H","D","R","1","0",".">>] >>

RECURSIVE replace_each(_, _, _)
replace_each(scene_name, table, i) ==
    IF i > Len(table) THEN scene_name
    ELSE replace_each(replace(scene_name, table[i].old, table[i].new), table, i + 1)

\* _apply_scene_token_normalization(scene_name)
_apply_scene_token_normalization(scene_name) ==
    replace_each(scene_name, TokenReplacements, 1)

\* the strip loop of _sanitize_scene_name
RECURSIVE strip_each(_, _, _)
strip_each(scene_name, strip_chars, i) ==
    IF i > Len(strip_chars) THEN scene_name
    ELSE IF strip_chars[i] # <<>>
         THEN strip_each(replace(scene_name, strip_chars[i], <<>>), strip_chars, i + 1)
         ELSE strip_each(scene_name, strip_chars, i + 1)

\* _sanitize_scene_name(scene_name, replacement=..., strip_chars=...); the
\* caller always passes a str replacement
_sanitize_scene_name(scene_name, replacement, strip_chars) ==
    replace(strip_each(scene_name, strip_chars, 1), <<" ">>, replacement)

\* os.path.splitext(p)[1] on POSIX: the text from the last dot of the last
\* component on, unless only dots precede it in that component
splitext_ext(p) ==
    LET sepIndex == rfind(p, "/")
        dotIndex == rfind(p, ".")
    IN  IF /\ dotIndex > sepIndex
           /\ \E k \in (sepIndex + 2)..dotIndex : p[k] # "."
        THEN SubSeq(p, dotIndex + 1, Len(p))
        ELSE <<>>

\* the extension looked for in new_name as it is spelled
_append_original_extension_case_sensitive(original_name, new_name) ==
    IF original_name.t # "str" THEN new_name
    ELSE LET ext == splitext_ext(strip(original_name.s))
         IN  IF ext # <<>> /\ ~endswith(new_name, ext)
             THEN new_name \o ext
             ELSE new_name

\* _append_original_extension(original_name, new_name)
_append_original_extension(original_name, new_name) ==
    IF original_name.t # "str" THEN new_name
    ELSE LET ext == splitext_ext(strip(original_name.s))
         IN  IF ext # <<>> /\ ~endswith(lower(new_name), lower(ext))
             THEN new_name \o ext
             ELSE new_name

\* the characters of a strip_chars string that has no comma
RECURSIVE non_space_chars(_, _)
non_space_chars(s, i) ==
    IF i > Len(s) THEN <<>>
    ELSE IF isspace(s[i]) THEN non_space_chars(s, i + 1)
    ELSE << <<s[i]>> >> \o non_space_chars(s, i + 1)

\* the pieces taken as they stand between the commas
comma_items_untrimmed(s) ==
    SelectSeq(split(s, ","), LAMBDA item : item # <<>>)

\* the pieces of a comma-separated strip_chars string, trimmed, empty dropped
comma_items(s) ==
    LET pieces == split(s, ",")
        trimmed == [i \in 1..Len(pieces) |-> strip(pieces[i])]
    IN  SelectSeq(trimmed, LAMBDA item : item # <<>>)

\* the strip_chars tuple apply_preferred_scene_name builds from
\* naming.get("strip_chars", DEFAULT_STRIP_CHARS)
strip_chars_of(strip_chars_config) ==
    IF strip_chars_config.t = "absent" THEN DEFAULT_STRIP_CHARS
    ELSE IF strip_chars_config.t = "list"
    THEN LET kept == SelectSeq(strip_chars_config.s,
                         LAMBDA char : char.t = "str" /\ char.s # <<>>)
         IN  [i \in 1..Len(kept) |-> kept[i].s]
    ELSE IF strip_chars_config.t = "str"
    THEN LET stripped == strip(strip_chars_config.s)
             parsed == IF \E i \in 1..Len(stripped) : stripped[i] = ","
                       THEN comma_items(stripped)
                       ELSE non_space_chars(stripped, 1)
         IN  IF parsed # <<>> THEN parsed ELSE DEFAULT_STRIP_CHARS
    ELSE DEFAULT_STRIP_CHARS

\* the replacement apply_preferred_scene_name passes on
replacement_of(space_replacement) ==
    IF space_replacement.t = "str" THEN space_replacement.s
    ELSE DEFAULT_SPACE_REPLACEMENT

\* naming.get("sanitize_filenames", True)
sanitize_enabled(naming) ==
    naming.sanitize_filenames.t = "absent" \/ truthy(naming.sanitize_filenames)

\* a guard that takes the switch for set
switch_always_enabled(naming) == TRUE

\* naming.get("prefer_radarr_scene_name", False), as line 81 tests it
switch_enabled(naming) == truthy(naming.prefer_radarr_scene_name)

\* sanitization done first, token normalization after it
normalized_scene_name_sanitize_first(scene_name, naming) ==
    LET sanitized == IF sanitize_enabled(naming)
                     THEN _sanitize_scene_name(scene_name,
                                               replacement_of(naming.space_replacement),
                                               strip_chars_of(naming.strip_chars))
                     ELSE scene_name
    IN  IF truthy(naming.normalize_scene_tokens)
        THEN _apply_scene_token_normalization(sanitized)
        ELSE sanitized

\* lines 89-123: the local scene_name after token normalization and
\* sanitization
normalized_scene_name(scene_name, naming) ==
    LET tokens_done == IF truthy(naming.normalize_scene_tokens)
                       THEN _apply_scene_token_normalization(scene_name)
                       ELSE scene_name
    IN  IF sanitize_enabled(naming)
        THEN _sanitize_scene_name(tokens_done,
                                  replacement_of(naming.space_replacement),
                                  strip_chars_of(naming.strip_chars))
        ELSE tokens_done

\* an override written whether or not the key is there
write_name_overwriting(m, scene_name) ==
    LET name == Str(_append_original_extension(m.name, scene_name))
    IN  [m EXCEPT !.name = name, !.torrent_name_override = name]

\* a write that also takes 'filelist' out of meta
write_name_dropping_filelist(m, scene_name) ==
    LET name == Str(_append_original_extension(m.name, scene_name))
    IN  [m EXCEPT !.name = name,
                  !.filelist = Absent,
                  !.torrent_name_override =
                      IF @.t = "absent" THEN name ELSE @]

\* lines 126-127 and 143-144: the two writes to meta (m here)
write_name(m, scene_name) ==
    LET name == Str(_append_original_extension(m.name, scene_name))
    IN  [m EXCEPT !.name = name,
                  !.torrent_name_override =
                      IF @.t = "absent" THEN name ELSE @]

\* (config or {}).get("NAMING", {}): the NAMING section read at line 80
NoNaming ==
    [t |-> "absent", prefer_radarr_scene_name |-> Absent,
     normalize_scene_tokens |-> Absent, sanitize_filenames |-> Absent,
     space_replacement |-> Absent, strip_chars |-> Absent]

\* the try block of apply_preferred_scene_name(meta, config), the arguments
\* named m and cfg here: whether an exception was raised in it, meta and
\* config as it leaves them (no line assigns into config or its NAMING
\* section), and the local scene_name at line 125 (Absent when the block
\* left before)
apply_try_block(m, cfg, imported) ==
    LET left       == [raised |-> FALSE, meta |-> m, config |-> cfg,
                       scene_name |-> Absent]
        failed     == [raised |-> TRUE, meta |-> m, config |-> cfg,
                       scene_name |-> Absent]
        naming     == IF cfg.t = "dict" THEN cfg.NAMING ELSE NoNaming
        scene_name == _extract_radarr_scene_name(m.radarr, imported)
        normalized == normalized_scene_name(scene_name, naming)
    IN  IF cfg.t = "other" THEN failed
        ELSE IF naming.t \in {"none", "other"} THEN failed
        ELSE IF ~switch_enabled(naming) THEN left
        ELSE IF m.t # "dict" THEN failed
        ELSE IF scene_name_raises(m.radarr, imported) THEN failed
        ELSE IF scene_name = <<>> THEN left
        ELSE [raised |-> FALSE,
              meta |-> IF normalized # <<>> THEN write_name(m, normalized)
                       ELSE m,
              config |-> cfg,
              scene_name |-> Str(normalized)]

\* the try block of prefer_radarr_scene_name(meta)
prefer_try_block(m, imported) ==
    LET scene_name == _extract_radarr_scene_name(m.radarr, imported)
    IN  IF m.t # "dict" THEN [raised |-> TRUE, meta |-> m, scene_name |-> Absent]
        ELSE IF scene_name_raises(m.radarr, imported)
        THEN [raised |-> TRUE, meta |-> m, scene_name |-> Absent]
        ELSE IF scene_name = <<>>
        THEN [raised |-> FALSE, meta |-> m, scene_name |-> Absent]
        ELSE [raised |-> FALSE, meta |-> write_name(m, scene_name),
              scene_name |-> Str(scene_name)]

\* a function without the except clause lets the exception out
outcome_uncaught(block) == IF block.raised THEN "raised" ELSE "returned"

\* except Exception: pass -- the call returns whatever the try block did
outcome(block) == "returned"

-----------------------------------------------------------------------------
(* The inputs of the naming functions *)

\* "Original", "Original.Release.Name.mkv", "/path/Example.mkv"
sOriginal    == <<"O","r","i","g","i","n","a","l">>
sOriginalMkv == <<"O","r","i","g","i","n","a","l",".","R","e","l","e","a","s","e",".","N","a","m","e",".","m","k","v">>
sExampleMkv  == <<"/","p","a","t","h","/","E","x","a","m","p","l","e",".","m","k","v">>
sPreset      == <<"P","r","e","s","e","t">>
\* the scene names of tests/test_naming.py
sSceneTest   == <<"S","c","e","n","e"," ","N","a","m","e"," ","(","T","e","s","t",")">>
sReleaseHdr  == <<"R","e","l","e","a","s","e"," ","D","D","+"," ","H","D","R",".">>
sSceneDot    == <<"S","c","e","n","e",".","N","a","m","e">>
\* surrounding whitespace, brackets only, a space inside "HDR ."
sPadded      == <<" ","A"," ","{","b","}"," ">>
sBrackets    == <<"(",")">>
sHdrSpace    == <<"D","D"," ","+","H","D","R"," ",".">>
sUnderscore  == <<"_">>
\* "Scene Name [Test]", "Scene.Name.mkv", ".." and the name "Orig.MKV"
sSceneBracket == <<"S","c","e","n","e"," ","N","a","m","e"," ","[","T","e","s","t","]">>
sSceneMkv    == <<"S","c","e","n","e",".","N","a","m","e",".","m","k","v">>
sDots        == <<".",".">>
sOrigUpper   == <<"O","r","i","g",".","M","K","V">>
\* strip_chars given as a string: "{}[]()", "{, },[, ],(, )", "[Test], e"
sStripString == <<"{","}","[","]","(",")">>
sStripCommas == <<"{",","," ","}",",","[",","," ","]",",","(",","," ",")">>
sStripWords  == <<"[","T","e","s","t","]",","," ","e">>

RadarrWith(movieFileTag, sceneName) ==
    [t |-> "dict", movieFile |-> [t |-> movieFileTag, sceneName |-> sceneName]]

\* what meta['radarr'] may hold
RadarrValues ==
    {RadarrWith("dict", Str(s)) :
        s \in {sSceneTest, sReleaseHdr, sSceneDot, sPadded, sBrackets,
               sHdrSpace, <<" ">>}}
    \cup {RadarrWith("dict", Absent), RadarrWith("dict", PyOther),
          RadarrWith("absent", Absent), RadarrWith("other", Absent),
          [RadarrWith("absent", Absent) EXCEPT !.t = "absent"],
          [RadarrWith("absent", Absent) EXCEPT !.t = "other"]}

Meta(name, filelist, radarr, torrent_name_override) ==
    [t |-> "dict", name |-> name, filelist |-> filelist, radarr |-> radarr,
     torrent_name_override |-> torrent_name_override,
     preferred_scene_name |-> Absent]

\* a meta that is no mapping
MetaNoMapping ==
    [Meta(Absent, Absent, [RadarrWith("absent", Absent) EXCEPT !.t = "absent"],
          Absent) EXCEPT !.t = "other"]

\* the metas a call may start from; the tests give a filelist to the metas
\* named "Original"
Metas ==
    {Meta(name, IF name = Str(sOriginal) THEN PyList(<<Str(sExampleMkv)>>) ELSE Absent,
          radarr, override) :
        name \in {Str(sOriginal), Str(sOriginalMkv), PyNone},
        radarr \in RadarrValues,
        override \in {Absent, Str(sPreset)}}
    \cup {Meta(Str(sOrigUpper), Absent, RadarrWith("dict", Str(s)), Absent) :
              s \in {sSceneBracket, sSceneMkv, sDots}}
    \cup {MetaNoMapping}

Naming(prefer, tokens, sanitize, space, chars) ==
    [t |-> "dict", prefer_radarr_scene_name |-> prefer,
     normalize_scene_tokens |-> tokens, sanitize_filenames |-> sanitize,
     space_replacement |-> space, strip_chars |-> chars]

Config(naming) == [t |-> "dict", NAMING |-> naming]

sStripList == PyList(<<Str(<<"(">>), Str(<<>>), PyNone, Str(<<".">>)>>)

\* NAMING sections that leave the switch off
NamingsOff ==
    {NoNaming,
     Naming(Absent, Absent, Absent, Absent, Absent),
     Naming(PyFalse, Absent, Absent, Absent, Absent),
     Naming(PyFalse, PyTrue, PyTrue, Str(sUnderscore), sStripList),
     Naming(Absent, PyTrue, PyFalse, Absent, Absent),
     Naming(PyNone, PyTrue, Absent, Absent, Absent)}

\* NAMING sections that turn the switch on
NamingsOn ==
    {Naming(PyTrue, Absent, Absent, Absent, Absent),
     Naming(PyOther, Absent, Absent, Absent, Absent),
     Naming(PyTrue, PyFalse, PyTrue, Absent, Absent),
     Naming(PyTrue, PyTrue, PyTrue, Absent, Absent),
     Naming(PyTrue, PyTrue, PyFalse, Absent, Absent),
     Naming(PyTrue, PyFalse, PyFalse, Absent, Absent),
     Naming(PyTrue, PyTrue, Absent, Str(sUnderscore), Absent),
     Naming(PyTrue, Absent, Absent, Str(sUnderscore), Absent),
     Naming(PyTrue, Absent, Absent, Str(<<>>), Absent),
     Naming(PyTrue, Absent, Absent, PyNone, PyNone),
     Naming(PyTrue, Absent, Absent, Absent, sStripList),
     Naming(PyTrue, PyTrue, Absent, Absent, sStripList),
     Naming(PyTrue, Absent, Absent, Absent, PyList(<<>>)),
     Naming(PyTrue, Absent, Absent, Absent, Str(sStripString)),
     Naming(PyTrue, Absent, Absent, Absent, Str(sStripCommas)),
     Naming(PyTrue, Absent, Absent, Absent, Str(sStripWords)),
     Naming(PyTrue, Absent, Absent, Absent, Str(<<>>)),
     Naming(PyTrue, Absent, Absent, Absent, Str(<<",">>))}

\* the config arguments a caller may pass: a mapping with a NAMING section,
\* one whose NAMING is None or no mapping, None, and a value that is no mapping
Configs ==
    {Config(naming) : naming \in NamingsOff \cup NamingsOn}
    \cup {Config([NoNaming EXCEPT !.t = "none"]),
          Config([NoNaming EXCEPT !.t = "other"]),
          [Config(NoNaming) EXCEPT !.t = "none"],
          [Config(NoNaming) EXCEPT !.t = "other"]}

\* the number of naming calls made on one meta
MaxCalls == 2

-----------------------------------------------------------------------------
(* The naming functions as a state machine: Init draws meta, each action is
   one call on it *)

RadarrIdle ==
    /\ radarr_data = PyNone
    /\ filename = PyNone
    /\ extract_pc = "idle"
    /\ matched = 0
    /\ extract_result = NoData

NamingInit ==
    /\ RadarrIdle
    /\ LookupIdle
    /\ RemoteIdle
    /\ FilesIdle
    /\ VideoIdle
    /\ meta \in Metas
    /\ meta_before = meta
    /\ config = [Config(NoNaming) EXCEPT !.t = "none"]
    /\ config_before = config
    /\ last_call = "none"
    /\ call_outcome = "none"
    /\ call_failed = FALSE
    /\ scene_name_local = Absent
    /\ radarr_module_imported \in BOOLEAN
    /\ calls = 0

\* apply_preferred_scene_name(meta, config)
apply_preferred_scene_name ==
    /\ calls < MaxCalls
    /\ \E cfg \in Configs :
        \E block \in {apply_try_block(meta, cfg, radarr_module_imported)} :
            /\ meta' = block.meta
            /\ meta_before' = meta
            /\ config' = block.config
            /\ config_before' = cfg
            /\ last_call' = "apply_preferred_scene_name"
            /\ call_outcome' = outcome(block)
            /\ call_failed' = block.raised
            /\ scene_name_local' = block.scene_name
    /\ calls' = calls + 1
    /\ UNCHANGED <<radarr_module_imported, radarr_vars, lookup_vars, remote_vars, file_vars, video_vars>>

\* prefer_radarr_scene_name(meta)
prefer_radarr_scene_name ==
    /\ calls < MaxCalls
    /\ \E block \in {prefer_try_block(meta, radarr_module_imported)} :
           /\ meta' = block.meta
           /\ meta_before' = meta
           /\ config' = [Config(NoNaming) EXCEPT !.t = "none"]
           /\ config_before' = config'
           /\ last_call' = "prefer_radarr_scene_name"
           /\ call_outcome' = outcome(block)
           /\ call_failed' = block.raised
           /\ scene_name_local' = block.scene_name
    /\ calls' = calls + 1
    /\ UNCHANGED <<radarr_module_imported, radarr_vars, lookup_vars, remote_vars, file_vars, video_vars>>

NamingNext == apply_preferred_scene_name \/ prefer_radarr_scene_name

NamingSpec == NamingInit /\ [][NamingNext]_vars

-----------------------------------------------------------------------------
(* Calls on one meta whose Radarr record the caller replaces between them *)

\* "Original.mkv" and "Scene.Name.mkv", the name and the override of
\* test_sets_torrent_override_when_scene_available
sOriginalDotMkv == <<"O","r","i","g","i","n","a","l",".","m","k","v">>
sSceneDotMkv    == <<"S","c","e","n","e",".","N","a","m","e",".","m","k","v">>

\* the records the caller stores
OverrideRadarrValues ==
    {RadarrWith("dict", Str(s)) : s \in {sSceneDot, sSceneTest}}

OverrideMetas ==
    {Meta(Str(sOriginalDotMkv), Absent, radarr, override) :
        radarr \in OverrideRadarrValues,
        override \in {Absent, Str(sPreset)}}

OverrideInit ==
    /\ RadarrIdle
    /\ LookupIdle
    /\ RemoteIdle
    /\ FilesIdle
    /\ VideoIdle
    /\ meta \in OverrideMetas
    /\ meta_before = meta
    /\ config = [Config(NoNaming) EXCEPT !.t = "none"]
    /\ config_before = config
    /\ last_call = "none"
    /\ call_outcome = "none"
    /\ call_failed = FALSE
    /\ scene_name_local = Absent
    /\ radarr_module_imported \in BOOLEAN
    /\ calls = 0

\* the caller puts another Radarr record into meta['radarr'] before the next
\* call
store_radarr_record ==
    /\ calls < MaxCalls
    /\ \E radarr \in OverrideRadarrValues :
        /\ radarr # meta.radarr
        /\ meta' = [meta EXCEPT !.radarr = radarr]
    /\ UNCHANGED <<meta_before, config, config_before, last_call, call_outcome, call_failed,
                   scene_name_local, radarr_module_imported, calls, radarr_vars,
                   lookup_vars, remote_vars, file_vars, video_vars>>

OverrideNext == NamingNext \/ store_radarr_record

OverrideSpec == OverrideInit /\ [][OverrideNext]_vars

-----------------------------------------------------------------------------
(* ensure_remote as a state machine: Init draws the repository's remotes, the
   one action is a call ensure_remote(remote_name, remote_url).  The git
   commands are those of a working repository: `git remote add` records the
   URL as given, `git remote get-url` prints the recorded URL and a newline. *)

MaxEnsureCalls == 2

\* run_git_command("remote", "get-url", name, capture_output=True).stdout
get_url_stdout(repo, name) == repo[name].url \o <<"\n">>

\* existing_url = run_git_command(...).stdout.strip()
existing_url(repo, name) == strip(get_url_stdout(repo, name))

\* one call: its return or exception, the remotes after it and the git
\* commands it ran
ensure_remote_call(repo, name, url) ==
    IF ~repo[name].present
    THEN [outcome  |-> "True",
          remotes  |-> [repo EXCEPT ![name] = Remote(url)],
          commands |-> <<"remote", "remote add">>]
    ELSE IF existing_url(repo, name) # url
    THEN [outcome  |-> "SystemExit",
          remotes  |-> repo,
          commands |-> <<"remote", "remote get-url">>]
    ELSE [outcome  |-> "False",
          remotes  |-> repo,
          commands |-> <<"remote", "remote get-url">>]

RemoteInit ==
    /\ RadarrIdle
    /\ NamingIdle
    /\ LookupIdle
    /\ FetchIdle
    /\ FilesIdle
    /\ VideoIdle
    /\ remotes \in [RemoteNames -> {NoRemote} \cup {Remote(url) : url \in RemoteUrls}]
    /\ remotes_before = remotes
    /\ remote_name = "none"
    /\ remote_url = <<>>
    /\ git_commands = <<>>
    /\ ensure_outcome = "none"
    /\ created = {}
    /\ ensure_calls = 0

ensure_remote ==
    /\ ensure_calls < MaxEnsureCalls
    /\ \E name \in RemoteNames, url \in RemoteUrls :
        \E call \in {ensure_remote_call(remotes, name, url)} :
            /\ remote_name' = name
            /\ remote_url' = url
            /\ remotes_before' = remotes
            /\ remotes' = call.remotes
            /\ git_commands' = call.commands
            /\ ensure_outcome' = call.outcome
            /\ created' = IF call.outcome = "True"
                          THEN created \cup {<<name, url>>}
                          ELSE created
    /\ ensure_calls' = ensure_calls + 1
    /\ UNCHANGED <<radarr_vars, naming_vars, lookup_vars, fetch_vars, file_vars, video_vars>>

(* fetch_remote(remote_name, bundle_path).  The working directory holds two
   bundles, "upstream" (named like the remote) and "up.bundle", a text file
   "notes.txt" and a directory "bundles". *)

MaxFetchCalls == 2

BundlePaths ==
    {NoBundle} \cup
    {BundlePath(parts) : parts \in {<<>>, <<"upstream">>, <<".", "upstream">>,
                                    <<"up.bundle">>, <<"gone.bundle">>,
                                    <<"bundles">>, <<"notes.txt">>}}

\* `if bundle_path:` is false for None and for the empty string
truthy_path(path) == path.given /\ path.parts # <<>>

\* Path(bundle_path): pathlib drops the "." parts, so "./upstream" becomes
\* "upstream" and "" becomes "."
NotDot(part) == part # "."
Path(parts) == SelectSeq(parts, NotDot)

\* what the working directory holds under a path
FileKind(parts) ==
    IF parts = <<>> THEN "dir"
    ELSE IF parts \in {<<"upstream">>, <<"up.bundle">>} THEN "bundle"
    ELSE IF parts = <<"notes.txt">> THEN "file"
    ELSE IF parts = <<"bundles">> THEN "dir"
    ELSE "missing"

\* bundle.exists() in place of bundle.is_file(): a directory passes
exists(parts) == FileKind(parts) # "missing"

\* bundle.is_file()
is_file(parts) == FileKind(parts) \in {"bundle", "file"}

\* how git reads the <repository> argument of `git fetch`: the name of a
\* configured remote first, a path otherwise
fetch_source(repo, repository) ==
    IF Len(repository) = 1 /\ repository[1] \in RemoteNames /\ repo[repository[1]].present
    THEN [t |-> "remote", name |-> repository[1]]
    ELSE IF FileKind(repository) = "bundle"
    THEN [t |-> "bundle", name |-> "none"]
    ELSE [t |-> "invalid", name |-> "none"]

\* refs/remotes/<name>/* after a forced fetch of refs/heads/* of heads
fetched_into(tracking, name, heads) ==
    [tracking EXCEPT ![name] =
        [branch \in Branches |->
            IF branch \in DOMAIN heads THEN heads[branch] ELSE @[branch]]]

\* `git fetch [--force --tags] <repository> [refs/heads/*:refs/remotes/<into>/*]`
\* (into = "none" without a refspec): whether git succeeded, the refs after
\* it and the remotes whose URL was contacted.  A fetch from a remote also
\* updates that remote's own tracking refs.
git_fetch(repo, tracking, repository, into, reachable) ==
    LET source == fetch_source(repo, repository) IN
    IF source.t = "remote"
    THEN IF reachable
         THEN [ok |-> TRUE,
               refs |-> IF into = "none"
                        THEN fetched_into(tracking, source.name, UrlHeads)
                        ELSE fetched_into(fetched_into(tracking, source.name, UrlHeads),
                                          into, UrlHeads),
               contacted |-> {source.name}]
         ELSE [ok |-> FALSE, refs |-> tracking, contacted |-> {source.name}]
    ELSE IF source.t = "bundle"
    THEN [ok |-> TRUE,
          refs |-> IF into = "none" THEN tracking
                   ELSE fetched_into(tracking, into, BundleHeads),
          contacted |-> {}]
    ELSE [ok |-> FALSE, refs |-> tracking, contacted |-> {}]

FetchCommand(repository, into) ==
    [cmd |-> "fetch", repository |-> repository, into |-> into]

\* one call: how it ended, the git commands it ran, the refs after it and
\* the remotes contacted
fetch_remote_call(repo, tracking, name, path, reachable) ==
    IF truthy_path(path)
    THEN IF ~is_file(Path(path.parts))
         THEN [outcome |-> "SystemExit", commands |-> <<>>,
               refs |-> tracking, contacted |-> {}]
         ELSE LET fetched == git_fetch(repo, tracking, Path(path.parts), name, reachable) IN
              [outcome |-> IF fetched.ok THEN "returned" ELSE "GitCommandError",
               commands |-> <<FetchCommand(Path(path.parts), name)>>,
               refs |-> fetched.refs, contacted |-> fetched.contacted]
    ELSE LET fetched == git_fetch(repo, tracking, <<name>>, "none", reachable) IN
         [outcome |-> IF fetched.ok THEN "returned" ELSE "GitCommandError",
          commands |-> <<FetchCommand(<<name>>, "none")>>,
          refs |-> fetched.refs, contacted |-> fetched.contacted]

fetch_remote ==
    /\ fetch_calls < MaxFetchCalls
    /\ \E name \in RemoteNames, path \in BundlePaths, reachable \in BOOLEAN :
        \E call \in {fetch_remote_call(remotes, refs, name, path, reachable)} :
            /\ fetch_remote_name' = name
            /\ bundle_path' = path
            /\ refs_before' = refs
            /\ refs' = call.refs
            /\ fetch_commands' = call.commands
            /\ fetch_outcome' = call.outcome
            /\ contacted' = call.contacted
    /\ fetch_calls' = fetch_calls + 1
    /\ UNCHANGED <<radarr_vars, naming_vars, lookup_vars, ensure_vars, file_vars, video_vars>>

RemoteNext ==
    \/ ensure_remote
    \/ fetch_remote

RemoteSpec == RemoteInit /\ [][RemoteNext]_vars

-----------------------------------------------------------------------------
(* file_permissions as a state machine: Init is the state after the import of
   the module; the actions are patch_file_permissions and the calls of
   open(file, mode), close() and __exit__() on what open returned *)

MaxPatchCalls == 3
MaxFileCalls == 4

WRITE_FLAGS == {"w", "a", "x", "+"}

_should_apply(mode) == \E i \in 1..Len(mode) : mode[i] \in WRITE_FLAGS

\* patch_file_permissions without its `if _PATCHED: return`
never_patched(flag) == FALSE

\* `if _PATCHED: return`
already_patched(flag) == flag

\* what an installer binds the name to: its wrapper around the callable
\* captured at import; _patch_aiofiles returns at once without aiofiles
installed(bindings, primitive, with_aiofiles) ==
    IF _ORIGINAL(primitive, with_aiofiles).t = "missing"
    THEN bindings[primitive]
    ELSE Wrapper(_ORIGINAL(primitive, with_aiofiles))

\* _ensure without its `if not self._ensured:`
_ensure_always(ensured) == TRUE

\* `if not self._ensured:` of _PermissionAwareFile._ensure
_ensure(ensured) == ~ensured

PermissionInit ==
    /\ RadarrIdle
    /\ NamingIdle
    /\ LookupIdle
    /\ RemoteIdle
    /\ VideoIdle
    /\ WrapperIdle
    /\ AsyncIdle
    /\ _PATCHED = FALSE
    /\ aiofiles_imported \in BOOLEAN
    /\ bound = ImportedBindings(aiofiles_imported)
    /\ installer_runs = [installer \in Installers |-> 0]
    /\ patch_calls = 0

patch_file_permissions ==
    /\ patch_calls < MaxPatchCalls
    /\ patch_calls' = patch_calls + 1
    /\ IF already_patched(_PATCHED)
       THEN UNCHANGED <<_PATCHED, bound, installer_runs>>
       ELSE /\ installer_runs' = [installer \in Installers |-> installer_runs[installer] + 1]
            /\ bound' = [primitive \in Primitives |->
                            installed(bound, primitive, aiofiles_imported)]
            /\ _PATCHED' = TRUE
    /\ UNCHANGED <<aiofiles_imported, wrapper_vars, async_vars>>
    /\ UNCHANGED <<radarr_vars, naming_vars, lookup_vars, remote_vars, video_vars>>

\* open(file, mode) through whatever builtins.open is bound to: wrapped_open
\* hands out a _PermissionAwareFile for a writing mode
open ==
    /\ file_calls < MaxFileCalls
    /\ \E mode \in Modes :
        /\ open_mode' = mode
        /\ handle' = IF bound["builtins.open"].t = "wrapper" /\ _should_apply(mode)
                     THEN "wrapper"
                     ELSE "file"
    /\ _ensured' = FALSE
    /\ permissions_applied' = 0
    /\ closes_returned' = 0
    /\ file_closed' = FALSE
    /\ last_file_call' = "open"
    /\ last_raised' = FALSE
    /\ file_calls' = file_calls + 1
    /\ UNCHANGED <<patch_vars, async_vars>>
    /\ UNCHANGED <<radarr_vars, naming_vars, lookup_vars, remote_vars, video_vars>>

\* close() or __exit__() on what open returned.  The underlying close of a
\* file that is still open flushes and can raise; the file is closed either
\* way.  The wrapper calls self._ensure() after the underlying call returned.
closed_by(method) ==
    /\ file_calls < MaxFileCalls
    /\ handle # "none"
    /\ \E raised \in (IF file_closed THEN {FALSE} ELSE BOOLEAN) :
        /\ last_raised' = raised
        /\ closes_returned' = IF raised THEN closes_returned ELSE closes_returned + 1
        /\ IF handle = "wrapper" /\ ~raised /\ _ensure(_ensured)
           THEN /\ permissions_applied' = permissions_applied + 1
                /\ _ensured' = TRUE
           ELSE UNCHANGED <<permissions_applied, _ensured>>
    /\ file_closed' = TRUE
    /\ last_file_call' = method
    /\ file_calls' = file_calls + 1
    /\ UNCHANGED <<open_mode, handle>>
    /\ UNCHANGED <<patch_vars, async_vars>>
    /\ UNCHANGED <<radarr_vars, naming_vars, lookup_vars, remote_vars, video_vars>>

close == closed_by("close")

__exit__ == closed_by("__exit__")

PermissionNext ==
    \/ patch_file_permissions
    \/ open
    \/ close
    \/ __exit__

PermissionSpec == PermissionInit /\ [][PermissionNext]_vars

-----------------------------------------------------------------------------
(* _AsyncPermissionAwareFile as a state machine: one wrapper, used by several
   coroutines of one event loop.  A coroutine runs without interruption from
   one await that suspends to the next; the awaits that suspend are those of
   the underlying close / __aexit__ and of asyncio.to_thread. *)

AsyncMethods == {"close", "__aexit__"}

AsyncCloseInit ==
    /\ RadarrIdle
    /\ NamingIdle
    /\ LookupIdle
    /\ RemoteIdle
    /\ VideoIdle
    /\ PatchIdle
    /\ WrapperIdle
    /\ _handle \in {"none", "handle"}
    /\ ctx_has_close \in BOOLEAN
    /\ async_ensured = FALSE
    /\ thread_starts = 0
    /\ co_method = [c \in Coroutines |-> "none"]
    /\ co_pc = [c \in Coroutines |-> "idle"]

\* getattr(target, "close", None) is not None: the handle of an entered
\* wrapper has a close method, the context manager may lack one
has_close_method(entered, ctx_closes) == entered = "handle" \/ ctx_closes

\* a coroutine awaits wrapper.close() or wrapper.__aexit__(): up to the
\* await of the underlying call
async_call(c) ==
    /\ co_pc[c] = "idle"
    /\ \E method \in AsyncMethods :
        /\ co_method' = [co_method EXCEPT ![c] = method]
        /\ co_pc' = [co_pc EXCEPT ![c] =
                        IF method = "close" /\ ~has_close_method(_handle, ctx_has_close)
                        THEN "returned"
                        ELSE "awaiting_close"]
    /\ UNCHANGED <<_handle, ctx_has_close, async_ensured, thread_starts>>
    /\ UNCHANGED <<patch_vars, wrapper_vars>>
    /\ UNCHANGED <<radarr_vars, naming_vars, lookup_vars, remote_vars, video_vars>>

\* `if not self._ensured:` of _AsyncPermissionAwareFile._ensure
_ensure_async(ensured) == ~ensured

\* the underlying call has ended: if it raised, so does the coroutine;
\* otherwise `await self._ensure()` runs up to asyncio.to_thread, which
\* starts the worker-thread call, or finds _ensured set and the method returns
underlying_returned(c) ==
    /\ co_pc[c] = "awaiting_close"
    /\ \E raised \in BOOLEAN :
        IF raised
        THEN /\ co_pc' = [co_pc EXCEPT ![c] = "raised"]
             /\ UNCHANGED <<_handle, thread_starts>>
        ELSE IF _ensure_async(async_ensured)
        THEN /\ thread_starts' = thread_starts + 1
             /\ co_pc' = [co_pc EXCEPT ![c] = "awaiting_thread"]
             /\ UNCHANGED _handle
        ELSE /\ co_pc' = [co_pc EXCEPT ![c] = "returned"]
             /\ _handle' = IF co_method[c] = "__aexit__" THEN "none" ELSE _handle
             /\ UNCHANGED thread_starts
    /\ UNCHANGED <<ctx_has_close, async_ensured, co_method>>
    /\ UNCHANGED <<patch_vars, wrapper_vars>>
    /\ UNCHANGED <<radarr_vars, naming_vars, lookup_vars, remote_vars, video_vars>>

\* the worker thread has finished: self._ensured = True, and the method
\* returns (__aexit__ clears _handle first)
to_thread_returned(c) ==
    /\ co_pc[c] = "awaiting_thread"
    /\ async_ensured' = TRUE
    /\ _handle' = IF co_method[c] = "__aexit__" THEN "none" ELSE _handle
    /\ co_pc' = [co_pc EXCEPT ![c] = "returned"]
    /\ UNCHANGED <<ctx_has_close, thread_starts, co_method>>
    /\ UNCHANGED <<patch_vars, wrapper_vars>>
    /\ UNCHANGED <<radarr_vars, naming_vars, lookup_vars, remote_vars, video_vars>>

AsyncCloseNext ==
    \E c \in Coroutines :
        \/ async_call(c)
        \/ underlying_returned(c)
        \/ to_thread_returned(c)

AsyncCloseSpec == AsyncCloseInit /\ [][AsyncCloseNext]_vars

-----------------------------------------------------------------------------
(* prompt_filename_correction as a state machine: Init is the call, with the
   file on disk; the one action is a pass of the `while True` loop, from the
   prompt to the return, the exit or the `continue`.  The paths on disk are
   regular files, and only this function changes them. *)

MaxPrompts == 3

\* "/m/Movie.mkv", "Movie.mkv" (relative), "/m/Movie" and "/m/Movie.MKV"
sMoviePath    == <<"/","m","/","M","o","v","i","e",".","m","k","v">>
sRelativePath == <<"M","o","v","i","e",".","m","k","v">>
sNoExtPath    == <<"/","m","/","M","o","v","i","e">>
sUpperExtPath == <<"/","m","/","M","o","v","i","e",".","M","K","V">>

FullPaths == {sMoviePath, sRelativePath, sNoExtPath, sUpperExtPath}

\* the working directory, "/w"
cwd == <<"/","w">>

\* the names of the other files a directory may hold: "Taken.mkv", "New.mkv"
sTakenMkv == <<"T","a","k","e","n",".","m","k","v">>
sNewMkv   == <<"N","e","w",".","m","k","v">>

\* what ask_string hands back: None, "", " ", "New", " New ", "New.MKV",
\* "Taken", "Taken.mkv", "Movie.mkv", "a/b", "." and ".."
sNew == <<"N","e","w">>
Answers ==
    {PyNone, Str(<<>>), Str(<<" ">>), Str(sNew), Str(<<" ","N","e","w"," ">>), Str(<<"N","e","w",".","M","K","V">>),
     Str(<<"T","a","k","e","n">>), Str(sTakenMkv), Str(<<"M","o","v","i","e",".","m","k","v">>), Str(<<"a","/","b">>), Str(<<".">>),
     Str(<<".",".">>)}

\* cli_ui.ask_string raised EOFError
EOFError == [t |-> "EOFError", s |-> <<>>, n |-> 0]

\* str.rstrip("/") unless the string is made of slashes only
RECURSIVE rstrip_slashes(_)
rstrip_slashes(head) ==
    IF head # <<>> /\ head[Len(head)] = "/" /\ (\E i \in 1..Len(head) : head[i] # "/")
    THEN rstrip_slashes(SubSeq(head, 1, Len(head) - 1))
    ELSE head

\* os.path.dirname and os.path.basename on POSIX
dirname(path) == rstrip_slashes(SubSeq(path, 1, rfind(path, "/") + 1))
basename(path) == SubSeq(path, rfind(path, "/") + 2, Len(path))

\* os.path.join(a, b) on POSIX
join(a, b) ==
    IF b # <<>> /\ b[1] = "/" THEN b
    ELSE IF a = <<>> \/ a[Len(a)] = "/" THEN a \o b
    ELSE a \o <<"/">> \o b

\* os.path.abspath on POSIX, for a path without "." or ".." parts
abspath(path) == IF path # <<>> /\ path[1] = "/" THEN path ELSE join(cwd, path)

\* `os.path.sep in candidate`
contains_sep(candidate) == \E i \in 1..Len(candidate) : candidate[i] = "/"

\* os.path.exists that never finds the path
path_never_exists(existing, path) == FALSE

\* os.path.exists(new_path)
path_exists(existing, path) == path \in existing

\* the candidate left without the extension
without_extension(candidate, ext) == candidate

\* lines 280-281: the original extension is appended unless the candidate
\* ends with it, whatever the case
with_extension(candidate, ext) ==
    IF ext # <<>> /\ ~endswith(lower(candidate), lower(ext))
    THEN candidate \o ext
    ELSE candidate

\* one pass of the loop: how it ended, the files after it and the value
\* returned (None unless the file was renamed)
prompt_pass(existing, path, answer, rename_fails) ==
    LET unchanged(ending) == [outcome |-> ending, files |-> existing, result |-> PyNone] IN
    IF answer = EOFError THEN unchanged("eof")
    ELSE IF answer.t = "none" \/ answer.s = <<>> THEN unchanged("skipped")
    ELSE IF strip(answer.s) = <<>> THEN unchanged("skipped")
    ELSE IF contains_sep(strip(answer.s)) \/ strip(answer.s) \in {<<".">>, <<".", ".">>}
    THEN unchanged("invalid")
    ELSE LET candidate == with_extension(strip(answer.s), splitext_ext(basename(path)))
             new_path  == join(dirname(path), candidate)
         IN  IF path_exists(existing, new_path) THEN unchanged("exists")
             ELSE IF rename_fails THEN unchanged("rename_failed")
             ELSE [outcome |-> "renamed",
                   files   |-> (existing \ {path}) \cup {new_path},
                   result  |-> Str(abspath(new_path))]

PromptInit ==
    /\ RadarrIdle
    /\ NamingIdle
    /\ LookupIdle
    /\ RemoteIdle
    /\ FilesIdle
    /\ ClosestIdle
    /\ full_path \in FullPaths
    /\ \E others \in SUBSET {sTakenMkv, sNewMkv} :
          files = {full_path} \cup {join(dirname(full_path), other) : other \in others}
    /\ files_before = files
    /\ prompt_answer = PyNone
    /\ asked = 0
    /\ prompt_pc = "prompting"
    /\ prompt_outcome = "none"
    /\ prompt_result = PyNone

ask_string ==
    /\ prompt_pc = "prompting"
    /\ asked < MaxPrompts
    /\ \E answer \in Answers \cup {EOFError}, rename_fails \in BOOLEAN :
        \E pass \in {prompt_pass(files, full_path, answer, rename_fails)} :
            /\ prompt_answer' = answer
            /\ prompt_outcome' = pass.outcome
            /\ files' = pass.files
            /\ prompt_result' = pass.result
            /\ prompt_pc' = CASE pass.outcome = "eof" -> "exited"
                              [] pass.outcome \in {"skipped", "renamed"} -> "returned"
                              [] OTHER -> "prompting"
    /\ asked' = asked + 1
    /\ UNCHANGED <<full_path, files_before, closest_vars>>
    /\ UNCHANGED <<radarr_vars, naming_vars, lookup_vars, remote_vars, file_vars>>

PromptNext == ask_string

PromptSpec == PromptInit /\ [][PromptNext]_vars

-----------------------------------------------------------------------------
(* closest(lst, K) as a state machine: Init draws one of get_resolution's two
   lists and K, the one action is the call *)

MaxK == 15400

width_list  == <<3840, 2560, 1920, 1280, 1024, 854, 720, 15360, 7680, 0>>
height_list == <<2160, 1440, 1080, 720, 576, 540, 480, 8640, 4320, 0>>

\* the list left as it is
unsorted(xs) == xs

\* sorted(lst): ascending, by insertion
RECURSIVE insert(_, _)
insert(xs, x) ==
    IF xs = <<>> THEN <<x>>
    ELSE IF x <= xs[1] THEN <<x>> \o xs
    ELSE <<xs[1]>> \o insert(Tail(xs), x)

RECURSIVE sorted_from(_, _)
sorted_from(xs, i) ==
    IF i > Len(xs) THEN <<>> ELSE insert(sorted_from(xs, i + 1), xs[i])

sorted(xs) == sorted_from(xs, 1)

\* the for loop from position i: res stays 0 while mi_input > each, and is
\* the first each for which that is false
RECURSIVE closest_from(_, _, _)
closest_from(xs, mi_input, i) ==
    IF i > Len(xs) THEN 0
    ELSE IF mi_input > xs[i] THEN closest_from(xs, mi_input, i + 1)
    ELSE xs[i]

ClosestInit ==
    /\ RadarrIdle
    /\ NamingIdle
    /\ LookupIdle
    /\ RemoteIdle
    /\ FilesIdle
    /\ PromptIdle
    /\ closest_lst \in {width_list, height_list}
    /\ closest_K \in 0..MaxK
    /\ closest_pc = "called"
    /\ closest_res = 0

closest ==
    /\ closest_pc = "called"
    /\ closest_res' = closest_from(sorted(closest_lst), closest_K, 1)
    /\ closest_pc' = "returned"
    /\ UNCHANGED <<closest_lst, closest_K, prompt_vars>>
    /\ UNCHANGED <<radarr_vars, naming_vars, lookup_vars, remote_vars, file_vars>>

ClosestNext == closest

ClosestSpec == ClosestInit /\ [][ClosestNext]_vars

-----------------------------------------------------------------------------
(* Properties of the naming functions *)

\* the last call was apply_preferred_scene_name on a config (a mapping or
\* None) whose NAMING section is a mapping or missing
AppliedWithNaming ==
    /\ last_call = "apply_preferred_scene_name"
    /\ config.t \in {"dict", "none"}
    /\ config.NAMING.t \in {"dict", "absent"}

\* meta held a Radarr record with a scene name that is not blank
HadSceneName ==
    /\ meta_before.t = "dict"
    /\ meta_before.radarr.t = "dict"
    /\ meta_before.radarr.movieFile.t = "dict"
    /\ meta_before.radarr.movieFile.sceneName.t = "str"
    /\ strip(meta_before.radarr.movieFile.sceneName.s) # <<>>

\* the trimmed scene name the last call started from
TrimmedSceneName == strip(meta_before.radarr.movieFile.sceneName.s)

\* C6: with NAMING.prefer_radarr_scene_name false or absent, meta['name']
\* after apply_preferred_scene_name is what it was before, whatever the scene
\* name and the other NAMING options.
C6_DisabledLeavesName ==
    (/\ AppliedWithNaming
     /\ \/ config.NAMING.prefer_radarr_scene_name.t = "absent"
        \/ config.NAMING.prefer_radarr_scene_name = PyFalse)
        => /\ call_outcome = "returned"
           /\ meta.name = meta_before.name

\* C6 witness: the switch is False, the other options are set, the record
\* carries a scene name that an enabled call would have written
C6_Witness ==
    /\ AppliedWithNaming
    /\ config.NAMING.prefer_radarr_scene_name = PyFalse
    /\ config.NAMING.normalize_scene_tokens = PyTrue
    /\ config.NAMING.space_replacement.t = "str"
    /\ HadSceneName
    /\ meta_before.name = Str(sOriginal)
    /\ meta.name = Str(sOriginal)

\* C7: neither naming function raises, whatever meta and config are, and
\* when an exception occurs inside the call meta['name'] keeps its value.
C7_NeverRaises ==
    last_call # "none"
        => /\ call_outcome = "returned"
           /\ call_failed => meta.name = meta_before.name

\* C7 witness: an enabled call failed inside (the movieFile is no mapping)
\* on a meta with a name, returned, and the name is the same
C7_Witness ==
    /\ AppliedWithNaming
    /\ truthy(config.NAMING.prefer_radarr_scene_name)
    /\ call_failed
    /\ call_outcome = "returned"
    /\ meta_before.t = "dict"
    /\ meta_before.radarr.t = "dict"
    /\ meta_before.radarr.movieFile.t = "other"
    /\ meta.name = Str(sOriginalMkv)

\* the six default strip characters
SixChars == {"{", "}", "[", "]", "(", ")"}

\* s without the characters of SixChars, each space turned into a dot
WithoutSixDotted(s) ==
    LET kept == SelectSeq(s, LAMBDA c : c \notin SixChars)
    IN  [i \in 1..Len(kept) |-> IF kept[i] = " " THEN "." ELSE kept[i]]

\* every option but the switch is missing or has its documented default
DefaultOptions(naming) ==
    /\ naming.normalize_scene_tokens.t = "absent" \/ naming.normalize_scene_tokens = PyFalse
    /\ naming.sanitize_filenames.t = "absent" \/ naming.sanitize_filenames = PyTrue
    /\ naming.space_replacement.t = "absent"
    /\ naming.strip_chars.t = "absent"

\* C8: with the switch on and default options, the normalized base name is
\* the trimmed scene name without { } [ ] ( ) and with '.' for every space:
\* it holds no space and none of the six characters, and
\* "Scene Name (Test)" gives "Scene.Name.Test".
C8_DefaultSanitization ==
    (/\ AppliedWithNaming
     /\ truthy(config.NAMING.prefer_radarr_scene_name)
     /\ DefaultOptions(config.NAMING)
     /\ HadSceneName)
        => /\ scene_name_local = Str(WithoutSixDotted(TrimmedSceneName))
           /\ \A i \in 1..Len(scene_name_local.s) :
                  scene_name_local.s[i] \notin SixChars \cup {" "}
           /\ TrimmedSceneName = sSceneTest
                  => scene_name_local = Str(<<"S","c","e","n","e",".","N","a","m","e",".","T","e","s","t">>)

\* C8 witness: the test's scene name under {prefer_radarr_scene_name: True}
C8_Witness ==
    /\ AppliedWithNaming
    /\ config.NAMING = Naming(PyTrue, Absent, Absent, Absent, Absent)
    /\ HadSceneName
    /\ TrimmedSceneName = sSceneTest
    /\ scene_name_local = Str(<<"S","c","e","n","e",".","N","a","m","e",".","T","e","s","t">>)

\* C9: with the switch on and a scene name that is not blank, the call
\* leaves meta['name'] as it was and writes the normalized name, followed by
\* the extension of the first filelist entry, to meta['preferred_scene_name'].
C9_WritesPreferredSceneName ==
    (/\ AppliedWithNaming
     /\ truthy(config.NAMING.prefer_radarr_scene_name)
     /\ HadSceneName
     /\ scene_name_local.t = "str" /\ scene_name_local.s # <<>>
     /\ meta_before.name.t = "str"
     /\ meta_before.filelist.t = "list" /\ meta_before.filelist.s # <<>>)
        => /\ meta.name = meta_before.name
           /\ meta.preferred_scene_name =
                  Str(scene_name_local.s \o splitext_ext(meta_before.filelist.s[1].s))

\* DD+ -> DDP, then HDR. -> HDR10., as literal substring replacements
TokensReplaced(s) ==
    replace(replace(s, <<"D","D","+">>, <<"D","D","P">>),
            <<"H","D","R",".">>, <<"H","D","R","1","0",".">>)

\* the sanitization the configuration asks for
Sanitized(s, naming) ==
    IF naming.sanitize_filenames.t = "absent" \/ truthy(naming.sanitize_filenames)
    THEN _sanitize_scene_name(s, replacement_of(naming.space_replacement),
                              strip_chars_of(naming.strip_chars))
    ELSE s

\* C10: the token table is applied exactly when normalize_scene_tokens is
\* set, before sanitization: DD+ -> DDP, then HDR. -> HDR10.; with
\* sanitization "Release DD+ HDR." gives the base name "Release.DDP.HDR10.",
\* and without the option neither substring is replaced.
C10_TokenNormalization ==
    (/\ AppliedWithNaming
     /\ truthy(config.NAMING.prefer_radarr_scene_name)
     /\ HadSceneName)
        => /\ truthy(config.NAMING.normalize_scene_tokens)
                  => scene_name_local =
                         Str(Sanitized(TokensReplaced(TrimmedSceneName), config.NAMING))
           /\ ~truthy(config.NAMING.normalize_scene_tokens)
                  => scene_name_local = Str(Sanitized(TrimmedSceneName, config.NAMING))
           /\ (/\ TrimmedSceneName = sReleaseHdr
               /\ config.NAMING = Naming(PyTrue, PyTrue, PyTrue, Absent, Absent))
                  => scene_name_local = Str(<<"R","e","l","e","a","s","e",".","D","D","P",".","H","D","R","1","0",".">>)
           /\ (/\ TrimmedSceneName = sReleaseHdr
               /\ config.NAMING = Naming(PyTrue, PyFalse, PyFalse, Absent, Absent))
                  => scene_name_local = Str(sReleaseHdr)

\* C10 witness: the test's call, normalize_scene_tokens and
\* sanitize_filenames both True on "Release DD+ HDR."
C10_Witness ==
    /\ AppliedWithNaming
    /\ config.NAMING = Naming(PyTrue, PyTrue, PyTrue, Absent, Absent)
    /\ HadSceneName
    /\ TrimmedSceneName = sReleaseHdr
    /\ scene_name_local = Str(<<"R","e","l","e","a","s","e",".","D","D","P",".","H","D","R","1","0",".">>)

\* the pieces the text of C11 describes for a strip_chars string: what stands
\* between the commas (trimmed, as its example needs), or else the characters
\* one by one (whitespace apart)
PiecesOf(s) ==
    LET pieces  == split(strip(s), ",")
        trimmed == SelectSeq([i \in 1..Len(pieces) |-> strip(pieces[i])],
                             LAMBDA piece : piece # <<>>)
        kept    == SelectSeq(strip(s), LAMBDA c : ~isspace(c))
    IN  IF \E i \in 1..Len(s) : s[i] = ","
        THEN trimmed
        ELSE [i \in 1..Len(kept) |-> <<kept[i]>>]

\* s without any occurrence of the pieces, removed one piece after the other
RECURSIVE WithoutPieces(_, _)
WithoutPieces(s, pieces) ==
    IF pieces = <<>> THEN s
    ELSE WithoutPieces(replace(s, Head(pieces), <<>>), Tail(pieces))

\* the last call sanitized a scene name under a strip_chars string
SanitizedWithStripString ==
    /\ AppliedWithNaming
    /\ truthy(config.NAMING.prefer_radarr_scene_name)
    /\ ~truthy(config.NAMING.normalize_scene_tokens)
    /\ sanitize_enabled(config.NAMING)
    /\ config.NAMING.strip_chars.t = "str"
    /\ HadSceneName

\* C11 as stated: a strip_chars string with a comma is split on commas and
\* each piece removed as a literal substring, one without a comma is split
\* into its characters and each of them removed -- for every such string.
C11_StripStringAsStated ==
    SanitizedWithStripString
        => scene_name_local =
               Str(replace(WithoutPieces(TrimmedSceneName,
                                         PiecesOf(config.NAMING.strip_chars.s)),
                           <<" ">>, replacement_of(config.NAMING.space_replacement)))

\* C11 amended: the pieces of a strip_chars string (between commas, trimmed,
\* or else its characters that are not whitespace) are removed as literal
\* substrings, and a string that yields no piece at all makes the six default
\* characters be removed; "{}[]()" and "{, },[, ],(, )" both turn
\* "Scene Name [Test]" into "Scene.Name.Test".
C11_StripString ==
    SanitizedWithStripString
        => LET pieces == PiecesOf(config.NAMING.strip_chars.s)
               used   == IF pieces = <<>>
                         THEN << <<"{">>, <<"}">>, <<"[">>, <<"]">>, <<"(">>, <<")">> >>
                         ELSE pieces
           IN  /\ scene_name_local =
                      Str(replace(WithoutPieces(TrimmedSceneName, used), <<" ">>,
                                  replacement_of(config.NAMING.space_replacement)))
               /\ (/\ TrimmedSceneName = sSceneBracket
                   /\ config.NAMING.strip_chars \in {Str(sStripString), Str(sStripCommas)}
                   /\ config.NAMING.space_replacement.t = "absent")
                      => scene_name_local = Str(<<"S","c","e","n","e",".","N","a","m","e",".","T","e","s","t">>)

\* C11 witness: the comma-separated string of the test on "Scene Name [Test]"
C11_Witness ==
    /\ SanitizedWithStripString
    /\ config.NAMING.strip_chars = Str(sStripCommas)
    /\ TrimmedSceneName = sSceneBracket
    /\ scene_name_local = Str(<<"S","c","e","n","e",".","N","a","m","e",".","T","e","s","t">>)

\* the last call got as far as writing a name: scene_name_local is the
\* normalized name it wrote from
WroteName ==
    /\ last_call # "none"
    /\ ~call_failed
    /\ meta_before.t = "dict"
    /\ scene_name_local.t = "str"
    /\ scene_name_local.s # <<>>

\* the file extension of the name meta held before the call, <<>> when it
\* has none
OriginalExtension ==
    IF meta_before.name.t = "str"
    THEN splitext_ext(strip(meta_before.name.s))
    ELSE <<>>

\* s ends with ext, upper and lower case taken as equal
EndsWithIgnoringCase(s, ext) ==
    /\ Len(s) >= Len(ext)
    /\ \A i \in 1..Len(ext) :
           lower_char(s[Len(s) - Len(ext) + i]) = lower_char(ext[i])

C13_FirstWriteWins ==
    [][/\ (meta.t = "dict" /\ meta.torrent_name_override.t # "absent")
            => meta'.torrent_name_override = meta.torrent_name_override
       /\ (/\ calls' = calls + 1
           /\ WroteName'
           /\ meta.torrent_name_override.t = "absent")
            => meta'.torrent_name_override = meta'.name]_vars

\* C13 witness: the first call wrote "Scene.Name.mkv" under the absent key,
\* the scene name changed, and the second call wrote another name while the
\* override stayed
C13_Witness ==
    /\ calls = 2
    /\ WroteName
    /\ meta_before.torrent_name_override = Str(sSceneDotMkv)
    /\ meta.torrent_name_override = Str(sSceneDotMkv)
    /\ TrimmedSceneName = sSceneTest
    /\ meta.name # meta.torrent_name_override

\* the last call was apply_preferred_scene_name with the switch on and every
\* other option at its default, on a scene name that holds no space and none
\* of the six default strip characters
DefaultCallOnCleanScene ==
    /\ AppliedWithNaming
    /\ truthy(config.NAMING.prefer_radarr_scene_name)
    /\ DefaultOptions(config.NAMING)
    /\ HadSceneName
    /\ \A i \in 1..Len(TrimmedSceneName) :
           TrimmedSceneName[i] \notin SixChars \cup {" "}

\* C14: under the default configuration with the switch on, a scene name
\* without spaces and default strip characters is written as it is,
\* optionally followed by the original extension, and the same call made
\* again on the resulting meta writes the same name.
C14_Idempotent ==
    [][DefaultCallOnCleanScene
          => /\ meta.name \in {Str(TrimmedSceneName),
                                Str(TrimmedSceneName \o OriginalExtension)}
             /\ (/\ calls' = calls + 1
                 /\ DefaultCallOnCleanScene'
                 /\ config' = config)
                    => meta'.name = meta.name]_vars

\* the extension of the first filelist entry, without its dot when s ends
\* with one already
WithFileExtension(s, file) ==
    LET ext == splitext_ext(file)
    IN  IF ext # <<>> /\ s # <<>> /\ s[Len(s)] = "."
        THEN s \o Tail(ext)
        ELSE s \o ext

\* C16: prefer_radarr_scene_name on a meta with a filelist and a scene name
\* that is not blank leaves meta['name'] as it was and writes the trimmed raw
\* scene name, followed by the extension of the first filelist entry (a
\* trailing '.' not doubled), to meta['preferred_scene_name'].
C16_PreferWritesPreferredSceneName ==
    (/\ last_call = "prefer_radarr_scene_name"
     /\ HadSceneName
     /\ meta_before.filelist.t = "list" /\ meta_before.filelist.s # <<>>)
        => /\ meta.name = meta_before.name
           /\ meta.preferred_scene_name =
                  Str(WithFileExtension(TrimmedSceneName, meta_before.filelist.s[1].s))

\* meta is a mapping whose Radarr record carries no scene name: no record,
\* no movieFile mapping, no sceneName string, or a blank one
HadNoSceneName ==
    /\ meta_before.t = "dict"
    /\ \/ meta_before.radarr.t # "dict"
       \/ meta_before.radarr.movieFile.t # "dict"
       \/ meta_before.radarr.movieFile.sceneName.t # "str"
       \/ strip(meta_before.radarr.movieFile.sceneName.s) = <<>>

\* C17: when the Radarr record carries no scene name, a call of either
\* naming function leaves meta as it was: the name is kept and neither
\* 'torrent_name_override' nor 'preferred_scene_name' is added.
C17_NoSceneNameLeavesMeta ==
    (last_call # "none" /\ HadNoSceneName)
        => /\ call_outcome = "returned"
           /\ meta = meta_before

\* C17 witness: prefer_radarr_scene_name on a record whose sceneName is a
\* blank string; the meta has a name and no override
C17_Witness ==
    /\ last_call = "prefer_radarr_scene_name"
    /\ HadNoSceneName
    /\ meta_before.radarr.t = "dict"
    /\ meta_before.radarr.movieFile.t = "dict"
    /\ meta_before.radarr.movieFile.sceneName = Str(<<" ">>)
    /\ meta.name = Str(sOriginal)
    /\ meta.torrent_name_override.t = "absent"
    /\ meta.preferred_scene_name.t = "absent"

ConsecutiveInstances(n) ==
    /\ n >= 1
    /\ radarr_config = Instances(n)
    /\ truthy(tmdb_id) \/ truthy(filename)

\* the smaller of the number of instances and the cap
InstancesTried(n) == IF n < max_instances THEN n ELSE max_instances

\* C18: with instances at consecutive indices from 0 and a tmdb_id or a
\* filename, get_radarr_data does not raise and terminates; it has then sent
\* at most 4 requests, to the indices 0, 1, 2, ... in order; it returns a
\* record only when that record has an imdb or tmdb id, and returns None only
\* after a request to every configured instance (up to the cap), so that a
\* non-200 response, a network error or a timeout was followed by a request to
\* the next instance.
C18_FailoverTerminates ==
    <>[](\A n \in 1..(MaxIndex + 1) :
            ConsecutiveInstances(n)
                => /\ lookup_pc = "returned"
                   /\ Len(requests) <= 4
                   /\ requests = [k \in 1..Len(requests) |-> k - 1]
                   /\ lookup_result.t = "dict"
                          => /\ last_outcome = "found"
                             /\ \/ truthy(lookup_result.value.imdb_id)
                                \/ truthy(lookup_result.value.tmdb_id)
                   /\ lookup_result.t = "none"
                          => /\ last_outcome # "found"
                             /\ Len(requests) = InstancesTried(n))

\* C18 witness: three instances, the first timed out, the second answered
\* 404, the third gave a connection error, and None was returned
C18_Witness ==
    /\ ConsecutiveInstances(3)
    /\ lookup_pc = "returned"
    /\ requests = <<0, 1, 2>>
    /\ last_outcome = "RequestError"
    /\ lookup_result = LookupNone

-----------------------------------------------------------------------------
(* Properties of ensure_remote *)

\* a call of ensure_remote has returned or raised
EnsureCalled == ensure_outcome # "none"

\* the git commands of the last call that add a remote or change a URL
IssuedAdds == {i \in 1..Len(git_commands) : git_commands[i] = "remote add"}
IssuedUrlChanges == {i \in 1..Len(git_commands) : git_commands[i] = "remote set-url"}

\* the remote existed before the last call with a URL other than remote_url
PointedElsewhere ==
    /\ EnsureCalled
    /\ remotes_before[remote_name].present
    /\ remotes_before[remote_name].url # remote_url

\* C19: when remote_name already exists with a URL different from remote_url,
\* ensure_remote raises SystemExit, runs no `git remote add` and no command
\* that changes a URL, and the remotes and their URLs are as before the call.
C19_NeverOverwritesElsewhere ==
    PointedElsewhere =>
        /\ ensure_outcome = "SystemExit"
        /\ IssuedAdds = {}
        /\ IssuedUrlChanges = {}
        /\ remotes = remotes_before

\* C20: a call of ensure_remote on a repository lacking the remote runs
\* exactly one `git remote add` and returns True; a call with arguments that
\* an earlier call was given on a repository lacking the remote runs no
\* `git remote add`, returns False and leaves the remotes and their URLs
\* unchanged.
C20_SafeToRunAgain ==
    [][ensure_remote =>
          /\ ~remotes[remote_name'].present =>
                /\ ensure_outcome' = "True"
                /\ Cardinality(IssuedAdds') = 1
          /\ <<remote_name', remote_url'>> \in created =>
                /\ ensure_outcome' = "False"
                /\ IssuedAdds' = {}
                /\ remotes' = remotes]_vars

-----------------------------------------------------------------------------
(* Properties of fetch_remote *)

\* a call of fetch_remote has returned or raised
FetchCalled == fetch_outcome # "none"

\* the last call was given a bundle_path under which there is no regular file
BundleNotAFile ==
    /\ FetchCalled
    /\ bundle_path.given
    /\ FileKind(Path(bundle_path.parts)) \in {"missing", "dir"}

\* the last call raised SystemExit having run no git command and changed no ref
RefusedBeforeGit ==
    /\ fetch_outcome = "SystemExit"
    /\ fetch_commands = <<>>
    /\ refs = refs_before

\* C21 as stated: fetch_remote with a bundle_path that does not exist or is
\* not a regular file raises SystemExit before any git command is run, and no
\* ref changes.
C21_MissingBundleAsStated == BundleNotAFile => RefusedBeforeGit

\* C21 amended: the same for every non-empty bundle_path; the empty string is
\* taken as no bundle_path at all, and the call then runs `git fetch <name>`.
C21_MissingBundle ==
    /\ (BundleNotAFile /\ bundle_path.parts # <<>>) => RefusedBeforeGit
    /\ (FetchCalled /\ bundle_path = BundlePath(<<>>)) =>
            fetch_commands = <<FetchCommand(<<fetch_remote_name>>, "none")>>

\* C21 witness: a second call, on refs an earlier call populated, is given a
\* path that does not exist and raises SystemExit
C21_Witness ==
    /\ bundle_path = BundlePath(<<"gone.bundle">>)
    /\ fetch_outcome = "SystemExit"
    /\ refs # NoRefs
    /\ refs = refs_before

\* the last call was given the path of a bundle
BundleGiven ==
    /\ FetchCalled
    /\ bundle_path.given
    /\ FileKind(Path(bundle_path.parts)) = "bundle"

\* the plain `git fetch <remote_name>` commands of the last call
PlainFetches ==
    {i \in 1..Len(fetch_commands) :
        fetch_commands[i] = FetchCommand(<<fetch_remote_name>>, "none")}

\* C22: with the path of a bundle, fetch_remote sets refs/remotes/<name>/* to
\* the bundle's refs/heads/*, runs no `git fetch <name>` and contacts no
\* remote URL; without a bundle_path it runs exactly `git fetch <name>`.
C22_BundleInsteadOfRemote ==
    /\ BundleGiven =>
        /\ fetch_outcome = "returned"
        /\ \A branch \in DOMAIN BundleHeads :
                refs[fetch_remote_name][branch] = BundleHeads[branch]
        /\ PlainFetches = {}
        /\ contacted = {}
    /\ (FetchCalled /\ ~bundle_path.given) =>
        fetch_commands = <<FetchCommand(<<fetch_remote_name>>, "none")>>

-----------------------------------------------------------------------------
(* Properties of file_permissions *)

\* C23: over any sequence of patch_file_permissions calls each of the five
\* installers has run exactly once after every call, a call after the first
\* changes no binding, and every installed wrapper delegates to the primitive
\* captured at import (its depth is 1), never to another wrapper.
C23_PatchedOnce ==
    [][patch_calls' = patch_calls + 1 =>
          /\ \A installer \in Installers : installer_runs'[installer] = 1
          /\ patch_calls >= 1 =>
                /\ bound' = bound
                /\ installer_runs' = installer_runs
                /\ _PATCHED' = _PATCHED
          /\ \A primitive \in Primitives :
                bound'[primitive].t = "wrapper" =>
                    bound'[primitive] = Wrapper(Primitive(primitive))]_vars

\* C23 witness: three calls were made with aiofiles present, and open and
\* aiofiles.open are bound to wrappers of their primitives
C23_Witness ==
    /\ patch_calls = MaxPatchCalls
    /\ aiofiles_imported
    /\ _PATCHED
    /\ bound["builtins.open"] = Wrapper(Primitive("builtins.open"))
    /\ bound["aiofiles.open"] = Wrapper(Primitive("aiofiles.open"))

\* C27: for a file that the patched open wrapped (a mode with w, a, x or +),
\* permissions are applied at most once, never by open itself, and only when
\* a close or __exit__ of the underlying file has returned without raising.
C27_AppliedAfterClose ==
    handle = "wrapper" =>
        /\ _should_apply(open_mode)
        /\ permissions_applied <= 1
        /\ permissions_applied = 1 => closes_returned >= 1
        /\ closes_returned >= 1 => permissions_applied = 1
        /\ last_file_call = "open" => permissions_applied = 0

\* C27 witness: the first close of a wrapped file raised, a later close and
\* an __exit__ returned, and permissions were applied once
C27_Witness ==
    /\ handle = "wrapper"
    /\ file_calls = MaxFileCalls
    /\ closes_returned = 2
    /\ last_file_call = "__exit__"
    /\ permissions_applied = 1

\* C28: however the coroutines that await close() and __aexit__ on one
\* wrapper interleave, the worker-thread call of _ensure_permissions is
\* started at most once.
C28_ThreadStartedOnce == thread_starts <= 1

-----------------------------------------------------------------------------
(* Properties of prompt_filename_correction *)

\* the last answer was a string of whitespace only, or the empty string
BlankAnswer ==
    /\ asked > 0
    /\ prompt_answer.t = "str"
    /\ \A i \in 1..Len(prompt_answer.s) : isspace(prompt_answer.s[i])

LastCandidate == strip(prompt_answer.s)

\* the original file's extension
OriginalExt == splitext_ext(basename(full_path))

\* the last answer was a name: not blank, without a separator, not "." or ".."
ValidNewName ==
    /\ asked > 0
    /\ prompt_answer.t = "str"
    /\ LastCandidate # <<>>
    /\ \A i \in 1..Len(LastCandidate) : LastCandidate[i] # "/"
    /\ LastCandidate \notin {<<".">>, <<".",".">>}

\* the name does not end with the original extension, whatever the case
LacksOriginalExt ==
    /\ OriginalExt # <<>>
    /\ ~endswith(lower(LastCandidate), lower(OriginalExt))

\* the path of the name plus the original extension, in the file's directory
ExtendedPath == join(dirname(full_path), LastCandidate \o OriginalExt)

\* C25: a valid new name that lacks the original extension, with the target
\* free and os.rename succeeding, ends the function; the file is then at the
\* new name plus the original extension in its own directory, no longer at
\* the original path, and the absolute new path is returned.
C25_RenamedWithExtension ==
    (ValidNewName /\ LacksOriginalExt) =>
        /\ (ExtendedPath \notin files_before /\ prompt_outcome # "rename_failed") =>
                prompt_pc = "returned"
        /\ prompt_pc = "returned" =>
                /\ files = (files_before \ {full_path}) \cup {ExtendedPath}
                /\ full_path \notin files
                /\ prompt_result = Str(abspath(ExtendedPath))

\* C25 witness: the relative path "Movie.mkv", renamed to "/w/New.mkv" by the
\* answer " New " after one rejected answer
C25_Witness ==
    /\ full_path = sRelativePath
    /\ asked = 2
    /\ prompt_answer = Str(<<" ","N","e","w"," ">>)
    /\ prompt_pc = "returned"
    /\ prompt_result = Str(<<"/","w","/","N","e","w",".","m","k","v">>)
    /\ files = {<<"N","e","w",".","m","k","v">>}

\* C29: a pass of the loop whose answer holds a separator, is "." or "..",
\* names an existing path, or whose os.rename fails, leaves the files as they
\* are and prompts again; a rename moves the file to a path that did not
\* exist; the function returns only None after a blank answer or the new
\* path after a rename, and exits only on EOF.
C29_NeverOntoExisting ==
    [][asked' = asked + 1 =>
          LET answered  == prompt_answer'
              candidate == strip(answered.s)
              target    == join(dirname(full_path),
                                with_extension(candidate, splitext_ext(basename(full_path))))
              named     == answered.t = "str" /\ candidate # <<>>
          IN  /\ (named /\ (\/ \E i \in 1..Len(candidate) : candidate[i] = "/"
                            \/ candidate \in {<<".">>, <<".",".">>}
                            \/ target \in files
                            \/ prompt_outcome' = "rename_failed")) =>
                    /\ files' = files
                    /\ prompt_pc' = "prompting"
              /\ files' # files =>
                    /\ target \notin files
                    /\ files' = (files \ {full_path}) \cup {target}
              /\ prompt_pc' = "returned" =>
                    \/ /\ ~named
                       /\ answered # EOFError
                       /\ prompt_result' = PyNone
                       /\ files' = files
                    \/ /\ named
                       /\ files' # files
                       /\ prompt_result' = Str(abspath(target))
              /\ prompt_pc' = "exited" => answered = EOFError]_vars

\* C29 witness: the third answer in a row names the existing "Taken.mkv";
\* nothing has changed and the prompt is up again
C29_Witness ==
    /\ asked = MaxPrompts
    /\ prompt_answer = Str(sTakenMkv)
    /\ prompt_outcome = "exists"
    /\ join(dirname(full_path), sTakenMkv) \in files
    /\ files = files_before
    /\ prompt_pc = "prompting"

-----------------------------------------------------------------------------
(* The order of the requests of get_radarr_data *)

\* a JSON body whose records include one with an imdbId or a tmdbId
RecordWithId(data) ==
    /\ data.t = "list"
    /\ \E i \in 1..Len(data.s) :
          /\ data.s[i].t = "dict"
          /\ truthy(data.s[i].imdbId) \/ truthy(data.s[i].tmdbId)

\* C26: the requests go to the indices 0, 1, 2, 3 in that order; when an
\* instance answers 200 with a record that has an imdb or tmdb id, the call
\* returns the data taken from that answer, and no request is sent after it.
C26_LowestIndexWins ==
    [][/\ requests' # requests =>
            /\ Len(requests) < max_instances
            /\ requests' = Append(requests, Len(requests))
       /\ (lookup_pc = "awaiting" /\ lookup_pc' # "awaiting" /\ RecordWithId(response_data')) =>
            /\ lookup_pc' = "returned"
            /\ lookup_result'.t = "dict"
            /\ \E i \in 1..Len(response_data'.s) :
                    lookup_result'.value.movie = response_data'.s[i]
       /\ RecordWithId(response_data) => requests' = requests]_vars

-----------------------------------------------------------------------------
(* Properties of closest *)

\* the elements of the list
ElementsOf(xs) == {xs[i] : i \in 1..Len(xs)}

\* the elements not over K, and those not under K
NotOver == {x \in ElementsOf(closest_lst) : x <= closest_K}
NotUnder == {x \in ElementsOf(closest_lst) : x >= closest_K}

=========================================================================
